---- MODULE Spec2Model ----
(***************************************************************************)
(* A model of portage.dep: the dependency-string reducer use_reduce with   *)
(* its memoization, and the REQUIRED_USE evaluator check_required_use.     *)
(*                                                                         *)
(* A token is a sequence of one-character strings, so that the code's      *)
(* token[-1] == "?", conditional[1:-1] and startswith("!") are computed    *)
(* as the code computes them.  A member of a dependency list is either a   *)
(* token (a Python str) or a nested list; Tok and Lst tag the two cases so *)
(* that isinstance(x, list) and x == "||" can be decided.                  *)
(***************************************************************************)
EXTENDS Integers, Sequences, FiniteSets, TLC

\* ------------------------------------------------------------------ bounds
\* The longest token stream given to use_reduce.
MaxLen == 11
\* The most leaf tokens in a token stream given to use_reduce.
MaxLeaves == 3

\* ------------------------------------------------------------------ tokens
LPAREN == <<"(">>
RPAREN == <<")">>
ANYOF == <<"|", "|">>
ARROW == <<"-", ">">>
EMPTY_ANY_OF == <<"_", "_", "c", "o", "n", "s", "t", "_", "_", "/", "e", "m", "p", "t", "y", "-", "a", "n", "y", "-", "o", "f">>

\* The flag the conditionals of the modelled inputs test.
FlagX == <<"x">>
CondX == <<"x", "?">>
CondNotX == <<"!", "x", "?">>

LeafNames == <<"A", "B", "C", "D", "E", "F", "G", "H">>
\* The n-th leaf of an input: leaves are told apart by their place.
Leaf(n) == <<LeafNames[n]>>
LeafTokens == {Leaf(n) : n \in 1..Len(LeafNames)}

\* str.startswith("!") and token[-1] == "?"
StartsWithBang(t) == Len(t) > 0 /\ t[1] = "!"
EndsWithQ(t) == t[Len(t)] = "?"

AlnumChars == {"a", "b", "c", "x", "y", "z", "A", "B", "C", "D", "E", "F", "G", "H", "0", "1"}
FlagChars == AlnumChars \cup {"+", "_", "@", "-"}
\* _get_useflag_re: ^[A-Za-z0-9][A-Za-z0-9+_@-]*$ over the characters in use
useflag_re_match(flag) ==
    /\ Len(flag) > 0
    /\ flag[1] \in AlnumChars
    /\ \A i \in 2..Len(flag) : flag[i] \in FlagChars

\* ------------------------------------------------------- list members
Tok(t) == [list |-> FALSE, tok |-> t, items |-> <<>>]
Lst(xs) == [list |-> TRUE, tok |-> <<>>, items |-> xs]
\* Python's x == "tok" for a list member x: a nested list equals no string.
IsTok(e, t) == ~e.list /\ e.tok = t
\* x[-1] == "?" for a member that is a str
IsConditional(e) == ~e.list /\ EndsWithQ(e.tok)

Last(xs) == xs[Len(xs)]
ButLast(xs) == SubSeq(xs, 1, Len(xs) - 1)
Tail1(xs) == SubSeq(xs, 2, Len(xs))

\* ------------------------------------------------------------ use_reduce
\* ur: the frame of a use_reduce call.  ru: the frame of a check_required_use
\* call.  heap, cache, held, first: the list objects of the process, the
\* memoized results of _use_reduce_cached, the lists a caller holds, and what
\* each key's first call returned.  ud: a _use_dep and the calls made on it.
\* at: the Atom objects of the process and the last call made on them.
\* ml: the arguments and the result of a match_from_list call, or the
\* frame of a best_match_to_list call.  cc: the two caches of compiled
\* patterns and the threads that look them up.  db: the maps of a
\* PackageVirtualDbapi and the last call made on it.
VARIABLES ur, ru, heap, cache, held, first, ud, at, ml, cc, db

vars == <<ur, ru, heap, cache, held, first, ud, at, ml, cc, db>>

\* A call that is not under way.
Idle == [status |-> "idle"]

PyBool(b) == IF b THEN "True" ELSE "False"

\* is_active without the negation of "!flag?": C7 tells it from is_active.
is_active_NoNegation(a, conditional) ==
    LET flag == IF StartsWithBang(conditional)
                THEN SubSeq(conditional, 2, Len(conditional) - 1)
                ELSE SubSeq(conditional, 1, Len(conditional) - 1)
    IN  PyBool(flag \in a.uselist)

\* is_active of _use_reduce_cached: "raise", "True" or "False".
is_active(a, conditional) ==
    LET is_negated == StartsWithBang(conditional)
        flag == IF is_negated THEN SubSeq(conditional, 2, Len(conditional) - 1)
                ELSE SubSeq(conditional, 1, Len(conditional) - 1)
    IN  IF ~useflag_re_match(flag) THEN "raise"
        ELSE IF is_negated /\ flag \in a.excludeall THEN "False"
        ELSE IF flag \in a.masklist THEN PyBool(is_negated)
        ELSE IF a.matchall THEN "True"
        ELSE IF a.matchnone THEN "False"
        ELSE PyBool((flag \in a.uselist /\ ~is_negated) \/ (flag \notin a.uselist /\ is_negated))

\* The token the loop is at, and the loop's advance to the next one.
Token(s) == s.mysplit[s.pos + 1]
Advance(s) == [s EXCEPT !.pos = @ + 1]

\* raise InvalidDependString(msg): the call ends and its frame is gone; what
\* is left is the exception, whose message names the token and its 1-based
\* place (0 and <<>> for a message about the end of the string).
RaiseAt(s, msg, token, place) ==
    [status |-> "InvalidDependString", args |-> s.args, msg |-> msg,
     token |-> token, place |-> place]
Raise(s, msg) ==
    IF s.pos < Len(s.mysplit) THEN RaiseAt(s, msg, Token(s), s.pos + 1)
    ELSE RaiseAt(s, msg, <<>>, 0)

\* stack[k][-1] == "||", with stack the sequence st (st[k + 1] is Python's stack[k])
ends_in_any_of_dep(st, k) ==
    k >= 0 /\ Len(st[k + 1]) > 0 /\ IsTok(Last(st[k + 1]), ANYOF)

starts_with_any_of_dep(st, k) ==
    k >= 0 /\ Len(st[k + 1]) > 0 /\ IsTok(st[k + 1][1], ANYOF)

RECURSIVE last_any_of_operator_level(_, _)
last_any_of_operator_level(st, k) ==
    IF k < 0 THEN -1
    ELSE IF Len(st[k + 1]) > 0 /\ ~Last(st[k + 1]).list
         THEN IF Last(st[k + 1]).tok = ANYOF THEN k
              ELSE IF ~EndsWithQ(Last(st[k + 1]).tok) THEN -1
              ELSE last_any_of_operator_level(st, k - 1)
         ELSE last_any_of_operator_level(st, k - 1)

\* stack[level].append(x), stack[level].extend(xs), stack[level].pop()
StAppend(st, level, x) == [st EXCEPT ![level + 1] = Append(@, x)]
StExtend(st, level, xs) == [st EXCEPT ![level + 1] = @ \o xs]
StPop(st, level) == [st EXCEPT ![level + 1] = ButLast(@)]

\* special_append that takes every list for one not led by "||": C11 tells
\* it from special_append.
special_append_PlainLists(st, level, l, is_single, opconvert) ==
    IF is_single
    THEN IF IsTok(l[1], ANYOF) /\ ends_in_any_of_dep(st, level - 1)
         THEN StExtend(st, level, l[2].items)
         ELSE IF Len(l) = 1 /\ l[1].list
         THEN IF last_any_of_operator_level(st, level - 1) = -1
              THEN StExtend(st, level, l[1].items)
              ELSE StAppend(st, level, l[1])
         ELSE StExtend(st, level, l)
    ELSE StAppend(st, level, Lst(l))

\* special_append of _use_reduce_cached: the stack after it.
special_append(st, level, l, is_single, opconvert) ==
    IF is_single
    THEN IF IsTok(l[1], ANYOF) /\ ends_in_any_of_dep(st, level - 1)
         THEN IF opconvert THEN StExtend(st, level, Tail1(l))
              ELSE StExtend(st, level, l[2].items)
         ELSE IF Len(l) = 1 /\ l[1].list
         THEN LET last == last_any_of_operator_level(st, level - 1)
              IN  IF last = -1
                  THEN IF opconvert /\ Len(l[1].items) > 0 /\ IsTok(l[1].items[1], ANYOF)
                       THEN StAppend(st, level, l[1])
                       ELSE StExtend(st, level, l[1].items)
                  ELSE IF opconvert /\ Len(l[1].items) > 0 /\ IsTok(l[1].items[1], ANYOF)
                       THEN StExtend(st, level, Tail1(l[1].items))
                       ELSE StAppend(st, level, l[1])
         ELSE StExtend(st, level, l)
    ELSE IF opconvert /\ Len(st[level + 1]) > 0 /\ IsTok(Last(st[level + 1]), ANYOF)
         THEN [st EXCEPT ![level + 1] = Append(ButLast(@), Lst(<<Tok(ANYOF)>> \o l))]
         ELSE StAppend(st, level, Lst(l))

\* The merge without the branch that joins a "||" group closed directly
\* inside a "||" group: C8 tells it from MergeClosed.
MergeClosed_NoJoin(st, level, l, is_single, opconvert) ==
    IF ~ends_in_any_of_dep(st, level - 1) /\ ~ends_in_any_of_dep(st, level)
    THEN StExtend(st, level, l)
    ELSE IF Len(st[level + 1]) = 0
    THEN special_append(st, level, l, is_single, opconvert)
    ELSE IF is_single /\ ends_in_any_of_dep(st, level)
    THEN special_append(StPop(st, level), level, l, is_single, opconvert)
    ELSE special_append(st, level, l, is_single, opconvert)

\* The non-flat merge of the closed list l into the level above (lines 745-771).
MergeClosed(st, level, l, is_single, opconvert) ==
    IF ~ends_in_any_of_dep(st, level - 1) /\ ~ends_in_any_of_dep(st, level)
    THEN StExtend(st, level, l)
    ELSE IF Len(st[level + 1]) = 0
    THEN special_append(st, level, l, is_single, opconvert)
    ELSE IF is_single /\ ends_in_any_of_dep(st, level)
    THEN special_append(StPop(st, level), level, l, is_single, opconvert)
    ELSE IF ends_in_any_of_dep(st, level) /\ ends_in_any_of_dep(st, level - 1)
    THEN StExtend(StPop(st, level), level, l)
    ELSE IF opconvert /\ ends_in_any_of_dep(st, level)
    THEN StAppend(StPop(st, level), level, Lst(<<Tok(ANYOF)>> \o l))
    ELSE special_append(st, level, l, is_single, opconvert)

\* token == "(" (lines 625-636)
OpenParen(s) ==
    IF s.need_simple_token THEN Raise(s, "expected: file name")
    ELSE IF Len(s.mysplit) >= s.pos + 2 /\ s.mysplit[s.pos + 2] = RPAREN
    THEN Raise(s, "expected: dependency string, got: ')'")
    ELSE Advance([s EXCEPT !.need_bracket = FALSE,
                           !.stack = Append(@, <<>>),
                           !.level = @ + 1])

\* The flat branch that keeps the body of every conditional: C10 tells it
\* from CloseFlat.
CloseFlat_KeepsBody(s, level, st, l) ==
    IF Len(st[level + 1]) > 0 /\ EndsWithQ(Last(st[level + 1]).tok)
    THEN Advance([s EXCEPT !.level = level, !.stack = StExtend(StPop(st, level), level, l)])
    ELSE Advance([s EXCEPT !.level = level, !.stack = StExtend(st, level, l)])

\* The flat branch of token == ")" (lines 657-670)
CloseFlat(s, level, st, l) ==
    IF Len(st[level + 1]) > 0 /\ EndsWithQ(Last(st[level + 1]).tok)
    THEN LET active == is_active(s.args, Last(st[level + 1]).tok)
         IN  IF active = "raise" THEN Raise(s, "invalid use flag")
             ELSE IF active = "True"
             THEN Advance([s EXCEPT !.level = level, !.stack = StExtend(StPop(st, level), level, l)])
             ELSE Advance([s EXCEPT !.level = level, !.stack = StPop(st, level)])
    ELSE Advance([s EXCEPT !.level = level, !.stack = StExtend(st, level, l)])

\* The structured branch of token == ")" (lines 672-771)
CloseNested(s, level, st, l0) ==
    LET is_single == \/ Len(l0) = 1
                     \/ (s.args.opconvert /\ Len(l0) > 0 /\ IsTok(l0[1], ANYOF))
                     \/ (~s.args.opconvert /\ Len(l0) = 2 /\ IsTok(l0[1], ANYOF))
        top == st[level + 1]
        isstr == Len(top) > 0 /\ ~Last(top).list
        empty_any_of == isstr /\ Last(top).tok = ANYOF /\ Len(l0) = 0
        conditional == isstr /\ ~empty_any_of /\ EndsWithQ(Last(top).tok)
        active == IF conditional THEN is_active(s.args, Last(top).tok) ELSE "True"
        l == IF empty_any_of /\ ~s.args.empty_groups_always_true
             THEN <<Tok(EMPTY_ANY_OF)>> ELSE l0
        ignore == conditional /\ active = "False"
        st1 == IF empty_any_of \/ conditional THEN StPop(st, level) ELSE st
    IN  IF active = "raise" THEN Raise(s, "invalid use flag")
        ELSE IF Len(l) > 0 /\ ~ignore
        THEN Advance([s EXCEPT !.level = level,
                               !.stack = MergeClosed(st1, level, l, is_single, s.args.opconvert)])
        ELSE Advance([s EXCEPT !.level = level, !.stack = st1])

\* token == ")" (lines 637-776)
CloseParen(s) ==
    IF s.need_bracket THEN Raise(s, "expected: '('")
    ELSE IF s.need_simple_token THEN Raise(s, "expected: file name")
    ELSE IF s.level > 0
    THEN LET level == s.level - 1
             l == Last(s.stack)
             st == ButLast(s.stack)
         IN  IF s.args.flat THEN CloseFlat(s, level, st, l)
             ELSE CloseNested(s, level, st, l)
    ELSE Raise(s, "no matching '(' for ')'")

\* "||" without the check that no "(" is awaited: C6 tells it from AnyOfToken.
AnyOfToken_NoBracketCheck(s) ==
    Advance([s EXCEPT !.need_bracket = TRUE,
                      !.stack = StAppend(@, s.level, Tok(ANYOF))])

\* token == "||" (lines 777-788)
AnyOfToken(s) ==
    IF s.args.is_src_uri THEN Raise(s, "any-of dependencies are not allowed in SRC_URI")
    ELSE IF s.need_bracket THEN Raise(s, "expected: '('")
    ELSE Advance([s EXCEPT !.need_bracket = TRUE,
                           !.stack = StAppend(@, s.level, Tok(ANYOF))])

\* "->" without the check that no file name is awaited: C12 tells it from
\* ArrowToken.
ArrowToken_NoFileNameCheck(s) ==
    IF ~s.args.is_src_uri THEN Raise(s, "SRC_URI arrow are only allowed in SRC_URI")
    ELSE IF ~s.args.src_uri_arrows THEN Raise(s, "SRC_URI arrow not allowed in EAPI")
    ELSE Advance([s EXCEPT !.need_simple_token = TRUE,
                           !.stack = StAppend(@, s.level, Tok(ARROW))])

\* token == "->" (lines 789-805)
ArrowToken(s) ==
    IF s.need_simple_token THEN Raise(s, "expected: file name")
    ELSE IF ~s.args.is_src_uri THEN Raise(s, "SRC_URI arrow are only allowed in SRC_URI")
    ELSE IF ~s.args.src_uri_arrows THEN Raise(s, "SRC_URI arrow not allowed in EAPI")
    ELSE Advance([s EXCEPT !.need_simple_token = TRUE,
                           !.stack = StAppend(@, s.level, Tok(ARROW))])

\* "/" in token
HasSlash(t) == \E i \in 1..Len(t) : t[i] = "/"

\* token.startswith(("fetch+", "mirror+"))
StartsWith(t, p) == Len(t) >= Len(p) /\ SubSeq(t, 1, Len(p)) = p
FETCH == <<"f", "e", "t", "c", "h", "+">>
MIRROR == <<"m", "i", "r", "r", "o", "r", "+">>

\* Any other token (lines 806-856), with token_class None.
OtherToken(s) ==
    LET token == Token(s)
    IN  IF s.need_bracket THEN Raise(s, "expected: '('")
        ELSE IF s.need_simple_token /\ HasSlash(token) THEN Raise(s, "expected: file name")
        ELSE IF EndsWithQ(token)
        THEN Advance([s EXCEPT !.need_bracket = TRUE,
                               !.stack = StAppend(@, s.level, Tok(token))])
        ELSE IF /\ s.args.is_src_uri /\ ~s.args.selective_src_uri_restriction
                /\ (StartsWith(token, FETCH) \/ StartsWith(token, MIRROR))
        THEN Raise(s, "Selective fetch/mirror restriction not allowed in EAPI")
        ELSE Advance([s EXCEPT !.need_simple_token = FALSE,
                               !.stack = StAppend(@, s.level, Tok(token))])

\* One turn of the loop over mysplit (line 624).
LoopBody(s) ==
    LET token == Token(s)
    IN  IF token = LPAREN THEN OpenParen(s)
        ELSE IF token = RPAREN THEN CloseParen(s)
        ELSE IF token = ANYOF THEN AnyOfToken(s)
        ELSE IF token = ARROW THEN ArrowToken(s)
        ELSE OtherToken(s)

\* After the loop (lines 858-867): the checks at the end of the string and
\* return stack[0].
EndOfString(s) ==
    IF s.level # 0 THEN Raise(s, "Missing ')' at end of string")
    ELSE IF s.need_bracket THEN Raise(s, "Missing '(' at end of string")
    ELSE IF s.need_simple_token THEN Raise(s, "Missing file name at end of string")
    ELSE [s EXCEPT !.status = "returned", !.result = s.stack[1], !.stack = <<>>]

\* The arguments of a call: the flag sets, the modes and the EAPI attributes
\* the reducer reads.  is_valid_flag, token_class and subset are None.
UseReduceArgs ==
    [uselist : {{}, {FlagX}}, masklist : {{}}, excludeall : {{}},
     matchall : {FALSE}, matchnone : {FALSE},
     is_src_uri : {FALSE}, opconvert : BOOLEAN, flat : BOOLEAN,
     empty_groups_always_true : BOOLEAN, src_uri_arrows : {TRUE},
     selective_src_uri_restriction : {TRUE}]

\* opconvert with flat, and matchall with matchnone, are refused with
\* ValueError before anything is read (lines 496-504).
ValidArgs(a) == ~(a.opconvert /\ a.flat) /\ ~(a.matchall /\ a.matchnone)

\* The frame of _use_reduce_cached at the top of its loop.
Frame(a, tokens, complete) ==
    [args |-> a, mysplit |-> tokens, complete |-> complete, pos |-> 0, level |-> 0,
     stack |-> << <<>> >>, need_bracket |-> FALSE, need_simple_token |-> FALSE,
     status |-> "loop", result |-> <<>>]

\* _use_reduce_cached on a whole token stream: the frame when the call ends.
RECURSIVE RunLoop(_)
RunLoop(s) ==
    IF s.status # "loop" THEN s
    ELSE IF s.pos < Len(s.mysplit) THEN RunLoop(LoopBody(s))
    ELSE EndOfString(s)

_use_reduce_cached(a, tokens) == RunLoop(Frame(a, tokens, TRUE))

\* ---------------------------------------------------------------- inputs
NumLeaves(tokens) == Cardinality({i \in 1..Len(tokens) : tokens[i] \in LeafTokens})
NumOpen(tokens) ==
    Cardinality({i \in 1..Len(tokens) : tokens[i] = LPAREN})
    - Cardinality({i \in 1..Len(tokens) : tokens[i] = RPAREN})

\* The fewest tokens that can complete tokens to a balanced string: a ")" for
\* each open group, a member for a group just opened, "( member )" after an
\* operator.
MinToClose(tokens) ==
    NumOpen(tokens)
    + (IF Len(tokens) = 0 THEN 0
       ELSE IF Last(tokens) = LPAREN THEN 1
       ELSE IF Last(tokens) = ANYOF \/ EndsWithQ(Last(tokens)) THEN 3
       ELSE 0)

\* The tokens that may follow the ones read so far: the operators, the
\* brackets and the next leaf, as long as a string of at most MaxLen tokens
\* can still close every group.
NextTokens(tokens) ==
    {t \in {LPAREN, RPAREN, ANYOF, ARROW, CondX, CondNotX}
           \cup (IF NumLeaves(tokens) < MaxLeaves THEN {Leaf(NumLeaves(tokens) + 1)} ELSE {}) :
        Len(tokens) + 1 + MinToClose(Append(tokens, t)) <= MaxLen}

\* The dependency string is read as the loop goes: the frames in which the
\* token at pos is known,
RevealToken(s) ==
    IF Len(s.mysplit) > s.pos THEN {s}
    ELSE IF s.complete THEN {}
    ELSE {[s EXCEPT !.mysplit = Append(@, t)] : t \in NextTokens(s.mysplit)}

\* and those in which the token after it, or the end of the string, is known
\* too ("(" looks one token ahead, line 630).
RevealNext(s) ==
    IF s.complete \/ Len(s.mysplit) > s.pos + 1 THEN {s}
    ELSE {[s EXCEPT !.complete = TRUE]}
         \cup {[s EXCEPT !.mysplit = Append(@, t)] : t \in NextTokens(s.mysplit)}

UrInit ==
    /\ \E a \in UseReduceArgs : ValidArgs(a) /\ ur = Frame(a, <<>>, FALSE)
    /\ ru = Idle /\ heap = <<>> /\ cache = <<>> /\ held = {} /\ first = <<>>
    /\ ud = Idle /\ at = Idle /\ ml = Idle /\ cc = Idle /\ db = Idle

UrOpen ==
    /\ ur.status = "loop"
    /\ \E s0 \in RevealToken(ur) :
         /\ Token(s0) = LPAREN
         /\ \E s \in RevealNext(s0) : ur' = OpenParen(s)
    /\ UNCHANGED <<ru, heap, cache, held, first, ud, at, ml, cc, db>>
UrClose ==
    /\ ur.status = "loop"
    /\ \E s \in RevealToken(ur) : Token(s) = RPAREN /\ ur' = CloseParen(s)
    /\ UNCHANGED <<ru, heap, cache, held, first, ud, at, ml, cc, db>>
UrAnyOf ==
    /\ ur.status = "loop"
    /\ \E s \in RevealToken(ur) : Token(s) = ANYOF /\ ur' = AnyOfToken(s)
    /\ UNCHANGED <<ru, heap, cache, held, first, ud, at, ml, cc, db>>
UrArrow ==
    /\ ur.status = "loop"
    /\ \E s \in RevealToken(ur) : Token(s) = ARROW /\ ur' = ArrowToken(s)
    /\ UNCHANGED <<ru, heap, cache, held, first, ud, at, ml, cc, db>>
UrOther ==
    /\ ur.status = "loop"
    /\ \E s \in RevealToken(ur) :
         /\ Token(s) \notin {LPAREN, RPAREN, ANYOF, ARROW}
         /\ ur' = OtherToken(s)
    /\ UNCHANGED <<ru, heap, cache, held, first, ud, at, ml, cc, db>>
UrEnd ==
    /\ ur.status = "loop"
    /\ ur.pos = Len(ur.mysplit)
    /\ ur' = EndOfString([ur EXCEPT !.complete = TRUE])
    /\ UNCHANGED <<ru, heap, cache, held, first, ud, at, ml, cc, db>>

UrNext == UrOpen \/ UrClose \/ UrAnyOf \/ UrArrow \/ UrOther \/ UrEnd

SpecReduce == UrInit /\ [][UrNext]_vars

\* ------------------------------------------------------- SRC_URI strings
\* The same reducer on SRC_URI-like strings: URIs, file names, arrows and
\* conditionals, read with is_src_uri set or not and under EAPIs with and
\* without arrows and selective fetch/mirror restriction.
MaxLenSU == 6

Uri == <<"u", "/", "f">>
FileName == <<"f">>
FetchUri == FETCH \o Uri

SrcUriArgs ==
    [uselist : {{}, {FlagX}}, masklist : {{}}, excludeall : {{}},
     matchall : {FALSE}, matchnone : {FALSE},
     is_src_uri : BOOLEAN, opconvert : {FALSE}, flat : {FALSE},
     empty_groups_always_true : {FALSE}, src_uri_arrows : BOOLEAN,
     selective_src_uri_restriction : BOOLEAN]

SuNextTokens(tokens) ==
    {t \in {LPAREN, RPAREN, ANYOF, ARROW, CondX, Uri, FileName, FetchUri} :
        Len(tokens) + 1 + MinToClose(Append(tokens, t)) <= MaxLenSU}

SuRevealToken(s) ==
    IF Len(s.mysplit) > s.pos THEN {s}
    ELSE IF s.complete THEN {}
    ELSE {[s EXCEPT !.mysplit = Append(@, t)] : t \in SuNextTokens(s.mysplit)}

SuRevealNext(s) ==
    IF s.complete \/ Len(s.mysplit) > s.pos + 1 THEN {s}
    ELSE {[s EXCEPT !.complete = TRUE]}
         \cup {[s EXCEPT !.mysplit = Append(@, t)] : t \in SuNextTokens(s.mysplit)}

SuInit ==
    /\ \E a \in SrcUriArgs : ValidArgs(a) /\ ur = Frame(a, <<>>, FALSE)
    /\ ru = Idle /\ heap = <<>> /\ cache = <<>> /\ held = {} /\ first = <<>>
    /\ ud = Idle /\ at = Idle /\ ml = Idle /\ cc = Idle /\ db = Idle

SuOpen ==
    /\ ur.status = "loop"
    /\ \E s0 \in SuRevealToken(ur) :
         /\ Token(s0) = LPAREN
         /\ \E s \in SuRevealNext(s0) : ur' = OpenParen(s)
    /\ UNCHANGED <<ru, heap, cache, held, first, ud, at, ml, cc, db>>
SuClose ==
    /\ ur.status = "loop"
    /\ \E s \in SuRevealToken(ur) : Token(s) = RPAREN /\ ur' = CloseParen(s)
    /\ UNCHANGED <<ru, heap, cache, held, first, ud, at, ml, cc, db>>
SuAnyOf ==
    /\ ur.status = "loop"
    /\ \E s \in SuRevealToken(ur) : Token(s) = ANYOF /\ ur' = AnyOfToken(s)
    /\ UNCHANGED <<ru, heap, cache, held, first, ud, at, ml, cc, db>>
SuArrow ==
    /\ ur.status = "loop"
    /\ \E s \in SuRevealToken(ur) : Token(s) = ARROW /\ ur' = ArrowToken(s)
    /\ UNCHANGED <<ru, heap, cache, held, first, ud, at, ml, cc, db>>
SuOther ==
    /\ ur.status = "loop"
    /\ \E s \in SuRevealToken(ur) :
         /\ Token(s) \notin {LPAREN, RPAREN, ANYOF, ARROW}
         /\ ur' = OtherToken(s)
    /\ UNCHANGED <<ru, heap, cache, held, first, ud, at, ml, cc, db>>
SuEnd ==
    /\ ur.status = "loop"
    /\ ur.pos = Len(ur.mysplit)
    /\ ur' = EndOfString([ur EXCEPT !.complete = TRUE])
    /\ UNCHANGED <<ru, heap, cache, held, first, ud, at, ml, cc, db>>

SuNext == SuOpen \/ SuClose \/ SuAnyOf \/ SuArrow \/ SuOther \/ SuEnd

SpecSrcUri == SuInit /\ [][SuNext]_vars

\* ------------------------------------------------------------ paren_enclose
\* paren_enclose (with unevaluated_atom False): the tokens of the string it
\* returns (the string is the tokens joined by single spaces).
RECURSIVE paren_enclose(_, _)
paren_enclose(mylist, opconvert) ==
    IF Len(mylist) = 0 THEN <<>>
    ELSE LET x == mylist[1]
             part == IF x.list
                     THEN IF opconvert /\ Len(x.items) > 0 /\ IsTok(x.items[1], ANYOF)
                          THEN <<ANYOF, LPAREN>> \o paren_enclose(Tail1(x.items), FALSE) \o <<RPAREN>>
                          ELSE <<LPAREN>> \o paren_enclose(x.items, FALSE) \o <<RPAREN>>
                     ELSE <<x.tok>>
         IN  part \o paren_enclose(Tail1(mylist), opconvert)

\* ------------------------------------------------- what the claims speak of
\* The tokens of a result in order, at every depth.
RECURSIVE Flatten(_)
Flatten(xs) ==
    IF Len(xs) = 0 THEN <<>>
    ELSE (IF xs[1].list THEN Flatten(xs[1].items) ELSE <<xs[1].tok>>) \o Flatten(Tail1(xs))

RECURSIVE Filter(_, _)
Filter(ts, S) ==
    IF Len(ts) = 0 THEN <<>>
    ELSE (IF ts[1] \in S THEN <<ts[1]>> ELSE <<>>) \o Filter(Tail1(ts), S)

\* A well-formed token stream: every ")" closes a "(", every "(" is closed,
\* and "(" follows every "||" and every conditional.
WellFormed(tokens) ==
    /\ \A i \in 1..Len(tokens) : NumOpen(SubSeq(tokens, 1, i)) >= 0
    /\ NumOpen(tokens) = 0
    /\ \A i \in 1..Len(tokens) :
         (tokens[i] = ANYOF \/ EndsWithQ(tokens[i]))
            => (i < Len(tokens) /\ tokens[i + 1] = LPAREN)

\* A conditional's activity under a concrete USE set, as the claims state it.
CondActive(uselist, c) ==
    IF c[1] = "!" THEN SubSeq(c, 2, Len(c) - 1) \notin uselist
    ELSE SubSeq(c, 1, Len(c) - 1) \in uselist

\* The leaves and "||" tokens of a well-formed stream that no inactive
\* conditional encloses, in input order.  open holds, for each open group,
\* whether it and all the groups around it are active; pending is the
\* activity of the conditional just read.
RECURSIVE ActiveTokens(_, _, _, _, _)
ActiveTokens(uselist, tokens, i, open, pending) ==
    IF i > Len(tokens) THEN <<>>
    ELSE LET t == tokens[i]
             here == Last(open)
         IN  IF t = LPAREN
             THEN ActiveTokens(uselist, tokens, i + 1, Append(open, here /\ pending), TRUE)
             ELSE IF t = RPAREN
             THEN ActiveTokens(uselist, tokens, i + 1, ButLast(open), TRUE)
             ELSE IF EndsWithQ(t)
             THEN ActiveTokens(uselist, tokens, i + 1, open, CondActive(uselist, t))
             ELSE (IF here THEN <<t>> ELSE <<>>)
                  \o ActiveTokens(uselist, tokens, i + 1, open, TRUE)

ActiveLeaves(uselist, tokens) ==
    Filter(ActiveTokens(uselist, tokens, 1, <<TRUE>>, TRUE), LeafTokens)

ConcreteUse(a) ==
    ~a.matchall /\ ~a.matchnone /\ a.masklist = {} /\ a.excludeall = {}

\* The any-of groups of a list are normalized at every depth.
RECURSIVE AnyOfNormalized(_)
AnyOfNormalized(xs) ==
    \A i \in 1..Len(xs) :
        /\ xs[i].list => AnyOfNormalized(xs[i].items)
        /\ (IsTok(xs[i], ANYOF) /\ i < Len(xs) /\ xs[i + 1].list)
              => /\ Len(xs[i + 1].items) # 1
                 /\ \A j \in 1..Len(xs[i + 1].items) : ~IsTok(xs[i + 1].items[j], ANYOF)

Returned == ur.status = "returned"

\* C6: use_reduce returns a result only for a well-formed token stream: a
\* stream in which "||" or a conditional is not followed by "(", a ")" has no
\* matching "(", or a "(" is never closed ends in InvalidDependString.
C6_OnlyWellFormedReturns ==
    /\ Returned => WellFormed(ur.mysplit)
    /\ (ur.status = "loop" /\ ur.pos = Len(ur.mysplit) /\ ~WellFormed(ur.mysplit))
          => EndOfString(ur).status = "InvalidDependString"

\* "x? A" or "|| A": the operator was followed by a leaf, not by "(", and the
\* call raised at the leaf.
C6_Witness ==
    /\ ur.status = "InvalidDependString"
    /\ ur.msg = "expected: '('"
    /\ ur.token = Leaf(1) /\ ur.place = 2

\* C7: with a concrete USE set and not flat, the input leaves in the result
\* are exactly the leaves whose enclosing conditionals are all active, in
\* input order, and the result holds no conditional token at any depth.
C7_ActiveLeavesSurvive ==
    (Returned /\ ~ur.args.flat /\ ConcreteUse(ur.args))
       => /\ Filter(Flatten(ur.result), LeafTokens) = ActiveLeaves(ur.args.uselist, ur.mysplit)
          /\ \A i \in 1..Len(Flatten(ur.result)) : ~EndsWithQ(Flatten(ur.result)[i])

\* A leaf inside an inactive conditional was dropped and one inside an
\* active conditional was kept.
C7_Witness ==
    /\ Returned /\ ~ur.args.flat
    /\ \E i \in 1..Len(ur.mysplit) : ur.mysplit[i] = CondX
    /\ \E i \in 1..Len(ur.mysplit) : ur.mysplit[i] = CondNotX
    /\ Len(Filter(Flatten(ur.result), LeafTokens)) = 1
    /\ NumLeaves(ur.mysplit) = 2

\* C8: not flat and not opconvert, no "||" of a result is followed by a group
\* of exactly one member and no "||" group has a "||" as a direct member.
C8_AnyOfNormalized ==
    (Returned /\ ~ur.args.flat /\ ~ur.args.opconvert) => AnyOfNormalized(ur.result)

\* "|| ( x? ( || ( A B ) ) )" with x enabled was reduced to "|| ( A B )".
C8_Witness ==
    /\ Returned /\ ~ur.args.flat /\ ~ur.args.opconvert
    /\ ur.mysplit = <<ANYOF, LPAREN, CondX, LPAREN, ANYOF, LPAREN, Leaf(1), Leaf(2),
                      RPAREN, RPAREN, RPAREN>>
    /\ ur.result = <<Tok(ANYOF), Lst(<<Tok(Leaf(1)), Tok(Leaf(2))>>)>>

\* C9: reduction is idempotent: serializing a result with paren_enclose and
\* reducing it again with the same arguments yields the same tree.
C9_Idempotent ==
    (Returned /\ ~ur.args.flat /\ ~ur.args.opconvert)
       => LET again == _use_reduce_cached(ur.args, paren_enclose(ur.result, FALSE))
          IN  again.status = "returned" /\ again.result = ur.result

\* C10 as stated: with flat, the result is one flat list of the leaves under
\* active branches, with no "||" and no conditional token.
C10_FlatOnlyLeaves ==
    (Returned /\ ur.args.flat /\ ConcreteUse(ur.args))
       => /\ \A i \in 1..Len(ur.result) : ~ur.result[i].list
          /\ Flatten(ur.result) = ActiveLeaves(ur.args.uselist, ur.mysplit)

\* C10 amended: with flat, the result is one flat list holding, in input
\* order, the leaves and the "||" tokens that no inactive conditional
\* encloses, and no conditional token.
C10_FlatActiveTokens ==
    (Returned /\ ur.args.flat /\ ConcreteUse(ur.args))
       => /\ \A i \in 1..Len(ur.result) : ~ur.result[i].list
          /\ Flatten(ur.result) = ActiveTokens(ur.args.uselist, ur.mysplit, 1, <<TRUE>>, TRUE)
          /\ \A i \in 1..Len(ur.result) : ~EndsWithQ(ur.result[i].tok)

\* A flat result that dropped the body of an inactive conditional and kept a
\* "||" and the leaves of a nested group.
C10_Witness ==
    /\ Returned /\ ur.args.flat
    /\ NumLeaves(ur.mysplit) = 3
    /\ \E i \in 1..Len(ur.mysplit) : EndsWithQ(ur.mysplit[i])
    /\ Flatten(ur.result) = <<ANYOF, Leaf(1), Leaf(3)>>

\* Every "||" of a list is the first member of a nested list: nested says
\* whether xs is itself a nested list.
RECURSIVE AnyOfLeads(_, _)
AnyOfLeads(xs, nested) ==
    \A i \in 1..Len(xs) :
        /\ IsTok(xs[i], ANYOF) => (nested /\ i = 1)
        /\ xs[i].list => AnyOfLeads(xs[i].items, TRUE)

\* C11: with opconvert, every "||" of the result is the first member of a
\* nested list that holds the members of its group after it: "||" is never a
\* sibling before its argument list and never at another place.
C11_OpconvertAnyOfLeads ==
    (Returned /\ ur.args.opconvert)
       => /\ AnyOfLeads(ur.result, FALSE)
          /\ \A i \in 1..Len(ur.result) :
                (ur.result[i].list /\ Len(ur.result[i].items) > 0
                      /\ IsTok(ur.result[i].items[1], ANYOF))
                   => Len(ur.result[i].items) > 1

\* "A || ( B x? ( C ) )" with x enabled became A followed by [ "||" B C ].
C11_Witness ==
    /\ Returned /\ ur.args.opconvert
    /\ ur.mysplit = <<Leaf(1), ANYOF, LPAREN, Leaf(2), CondX, LPAREN, Leaf(3), RPAREN, RPAREN>>
    /\ ur.result = <<Tok(Leaf(1)), Lst(<<Tok(ANYOF), Tok(Leaf(2)), Tok(Leaf(3))>>)>>

\* The token after the "->" at place i of tokens is a bare file name.
FileNameFollows(tokens, i) ==
    /\ i < Len(tokens)
    /\ tokens[i + 1] \notin {LPAREN, RPAREN, ARROW}
    /\ ~HasSlash(tokens[i + 1])

\* C12: a call ends by returning or with InvalidDependString, and it returns
\* for a string with "->" only when is_src_uri is set, the EAPI has arrows
\* and every "->" is followed by a token that is none of "(", ")", "->" and
\* holds no "/": every other string with "->" raises InvalidDependString.
C12_ArrowNeedsFileName ==
    /\ ur.status \in {"loop", "returned", "InvalidDependString"}
    /\ Returned =>
          \A i \in 1..Len(ur.mysplit) :
              ur.mysplit[i] = ARROW
                 => /\ ur.args.is_src_uri /\ ur.args.src_uri_arrows
                    /\ FileNameFollows(ur.mysplit, i)

\* "u/f -> (" read as SRC_URI under an EAPI with arrows raised at the "(".
C12_Witness ==
    /\ ur.status = "InvalidDependString"
    /\ ur.args.is_src_uri /\ ur.args.src_uri_arrows
    /\ ur.msg = "expected: file name" /\ ur.token = LPAREN /\ ur.place = 3

\* ===================================================== check_required_use
\* The longest REQUIRED_USE token stream given to check_required_use, and the
\* most flag tokens in one.
MaxLenRU == 8
MaxLeavesRU == 3

XORTOK == <<"^", "^">>
ATMOSTTOK == <<"?", "?">>
FlagA == <<"a">>
NotFlagA == <<"!", "a">>

\* A member of a stack list: a verdict (a Python bool) or an operator token.
Verdict(b) == [isbool |-> TRUE, val |-> b, tok |-> <<>>]
OpEntry(t) == [isbool |-> FALSE, val |-> FALSE, tok |-> t]

\* _RequiredUseLeaf and _RequiredUseBranch, held in an arena: a node is named
\* by its index, 0 is None, and operator <<>> is None.
NoOperator == <<>>
RequiredUseLeaf(token, satisfied) ==
    [leaf |-> TRUE, token |-> token, operator |-> NoOperator, parent |-> 0,
     children |-> <<>>, satisfied |-> satisfied]
RequiredUseBranch(operator, parent) ==
    [leaf |-> FALSE, token |-> <<>>, operator |-> operator, parent |-> parent,
     children |-> <<>>, satisfied |-> FALSE]

\* valid_operators (lines 2349-2352)
valid_operators(s) ==
    IF s.required_use_at_most_one_of THEN {ANYOF, XORTOK, ATMOSTTOK} ELSE {ANYOF, XORTOK}

\* is_active of check_required_use: "raise", "True" or "False".
ru_is_active(s, token) ==
    LET is_negated == StartsWithBang(token)
        flag == IF is_negated THEN Tail1(token) ELSE token
    IN  IF Len(flag) = 0 \/ flag \notin s.iuse THEN "raise"
        ELSE PyBool((flag \in s.use /\ ~is_negated) \/ (flag \notin s.use /\ is_negated))

CountTrue(argument) == Cardinality({i \in 1..Len(argument) : argument[i].val})
HasFalse(l) == \E i \in 1..Len(l) : ~l[i].val

\* is_satisfied without the rule for empty groups: C3 tells it from
\* is_satisfied.
is_satisfied_NoEmptyRule(s, operator, argument) ==
    IF operator = ANYOF THEN CountTrue(argument) >= 1
    ELSE IF operator = XORTOK THEN CountTrue(argument) = 1
    ELSE IF operator = ATMOSTTOK THEN CountTrue(argument) <= 1
    ELSE ~HasFalse(argument)

\* is_satisfied of check_required_use (lines 2373-2385)
is_satisfied(s, operator, argument) ==
    IF Len(argument) = 0 /\ s.empty_groups_always_true THEN TRUE
    ELSE IF operator = ANYOF THEN CountTrue(argument) >= 1
    ELSE IF operator = XORTOK THEN CountTrue(argument) = 1
    ELSE IF operator = ATMOSTTOK THEN CountTrue(argument) <= 1
    ELSE ~HasFalse(argument)

\* raise InvalidDependString, and raise AssertionError("node is not last child
\* of parent"): the call ends and its frame is gone.
RuRaise(s) == [status |-> "InvalidDependString"]
RuAssertionError(s) == [status |-> "AssertionError"]

\* A new child put in front of the children of node: C27 tells it from
\* NewChild.
NewChild_InFront(nodes, node, child) ==
    Append([nodes EXCEPT ![node].children = <<Len(nodes) + 1>> \o @], child)

\* node._children.append(child) for a new child; the new node is Len(nodes) + 1.
NewChild(nodes, node, child) ==
    Append([nodes EXCEPT ![node].children = Append(@, Len(nodes) + 1)], child)

\* last_node = parent._children.pop(), and whether last_node is node
PopsNode(nodes, parent, node) == Last(nodes[parent].children) = node
PopChild(nodes, parent) == [nodes EXCEPT ![parent].children = ButLast(@)]

\* for child in node._children: parent._children.append(child), and
\* child._parent = parent for a branch
AdoptChildren(nodes, parent, node) ==
    [i \in DOMAIN nodes |->
        IF i = parent THEN [nodes[i] EXCEPT !.children = @ \o nodes[node].children]
        ELSE IF (\E j \in 1..Len(nodes[node].children) : nodes[node].children[j] = i)
                /\ ~nodes[i].leaf
        THEN [nodes[i] EXCEPT !.parent = parent]
        ELSE nodes[i]]

\* token == "(" (lines 2395-2403)
RuOpenParen(s) ==
    LET s1 == IF ~s.need_bracket
              THEN [s EXCEPT !.nodes = NewChild(@, s.node, RequiredUseBranch(NoOperator, s.node)),
                             !.node = Len(s.nodes) + 1]
              ELSE s
    IN  Advance([s1 EXCEPT !.need_bracket = FALSE, !.stack = Append(@, <<>>), !.level = @ + 1])

\* The close of a plain group that makes a group without entries an entry of
\* the group around it: C2 tells it from ClosePlain.
ClosePlain_EmptyIsEntry(s, level, st, l) ==
    LET satisfied == ~HasFalse(l)
        nodes1 == [s.nodes EXCEPT ![s.node].satisfied = satisfied]
        parent == nodes1[s.node].parent
        s1 == [s EXCEPT !.level = level, !.stack = StAppend(st, level, Verdict(satisfied))]
    IN  IF Len(nodes1[s.node].children) <= 1
           \/ nodes1[parent].operator \notin valid_operators(s)
        THEN Advance([s1 EXCEPT !.nodes = AdoptChildren(PopChild(nodes1, parent), parent, s.node),
                                !.node = parent])
        ELSE Advance([s1 EXCEPT !.nodes = nodes1, !.node = parent])

\* op is None (lines 2435-2451), then node = node._parent
ClosePlain(s, level, st, l) ==
    LET satisfied == ~HasFalse(l)
        nodes1 == [s.nodes EXCEPT ![s.node].satisfied = satisfied]
        st1 == IF Len(l) > 0 THEN StAppend(st, level, Verdict(satisfied)) ELSE st
        parent == nodes1[s.node].parent
        s1 == [s EXCEPT !.level = level, !.stack = st1]
    IN  IF Len(nodes1[s.node].children) <= 1
           \/ nodes1[parent].operator \notin valid_operators(s)
        THEN IF ~PopsNode(nodes1, parent, s.node) THEN RuAssertionError(s)
             ELSE Advance([s1 EXCEPT !.nodes = AdoptChildren(PopChild(nodes1, parent), parent, s.node),
                                     !.node = parent])
        ELSE Advance([s1 EXCEPT !.nodes = nodes1, !.node = parent])

\* op is an operator or an active conditional (lines 2453-2478)
CloseOperator(s, level, st, l, op) ==
    LET satisfied == is_satisfied(s, op, l)
        st1 == StAppend(st, level, Verdict(satisfied))
        nodes1 == [s.nodes EXCEPT ![s.node].satisfied = satisfied]
        parent == nodes1[s.node].parent
        s1 == [s EXCEPT !.level = level, !.stack = st1]
    IN  IF Len(nodes1[s.node].children) = 0
        THEN IF ~PopsNode(nodes1, parent, s.node) THEN RuAssertionError(s)
             ELSE Advance([s1 EXCEPT !.nodes = PopChild(nodes1, parent), !.node = parent])
        ELSE IF Len(nodes1[s.node].children) = 1 /\ op \in valid_operators(s)
        THEN IF ~PopsNode(nodes1, parent, s.node) THEN RuAssertionError(s)
             ELSE LET child == nodes1[s.node].children[1]
                      nodes2 == [PopChild(nodes1, parent) EXCEPT ![parent].children = Append(@, child)]
                  IN  IF nodes2[child].leaf
                      THEN Advance([s1 EXCEPT !.nodes = nodes2, !.node = parent])
                      ELSE LET nodes3 == [nodes2 EXCEPT ![child].parent = parent]
                           IN  IF nodes3[child].operator = NoOperator
                                  /\ nodes3[parent].operator \notin valid_operators(s)
                               THEN IF ~PopsNode(nodes3, parent, child) THEN RuAssertionError(s)
                                    ELSE Advance([s1 EXCEPT
                                            !.nodes = AdoptChildren(PopChild(nodes3, parent), parent, child),
                                            !.node = parent])
                               ELSE Advance([s1 EXCEPT !.nodes = nodes3, !.node = parent])
        ELSE Advance([s1 EXCEPT !.nodes = nodes1, !.node = parent])

\* The close of an inactive conditional that leaves its node in the tree: C5
\* tells it from CloseInactive.
CloseInactive_KeepsNode(s, level, st) ==
    Advance([s EXCEPT !.level = level, !.stack = st,
                      !.nodes = [@ EXCEPT ![s.node].satisfied = TRUE],
                      !.node = s.nodes[s.node].parent])

\* An inactive conditional (lines 2427-2433)
CloseInactive(s, level, st) ==
    LET nodes1 == [s.nodes EXCEPT ![s.node].satisfied = TRUE]
        parent == nodes1[s.node].parent
    IN  IF ~PopsNode(nodes1, parent, s.node) THEN RuAssertionError(s)
        ELSE Advance([s EXCEPT !.level = level, !.stack = st,
                               !.nodes = PopChild(nodes1, parent), !.node = parent])

\* token == ")" (lines 2404-2480)
RuCloseParen(s) ==
    IF s.need_bracket THEN RuRaise(s)
    ELSE IF s.level > 0
    THEN LET level == s.level - 1
             l == Last(s.stack)
             st == ButLast(s.stack)
             top == st[level + 1]
         IN  IF Len(top) > 0 /\ ~Last(top).isbool /\ Last(top).tok \in valid_operators(s)
             THEN CloseOperator(s, level, StPop(st, level), l, Last(top).tok)
             ELSE IF Len(top) > 0 /\ ~Last(top).isbool /\ EndsWithQ(Last(top).tok)
             THEN LET op == Last(top).tok
                      active == ru_is_active(s, ButLast(op))
                  IN  IF active = "raise" THEN RuRaise(s)
                      ELSE IF active = "True"
                      THEN CloseOperator(s, level, StPop(st, level), l, op)
                      ELSE CloseInactive(s, level, StPop(st, level))
             ELSE ClosePlain(s, level, st, l)
    ELSE RuRaise(s)

\* token in valid_operators (lines 2481-2488), and a conditional (2493-2498)
RuOperatorToken(s) ==
    IF s.need_bracket THEN RuRaise(s)
    ELSE Advance([s EXCEPT !.need_bracket = TRUE,
                           !.stack = StAppend(@, s.level, OpEntry(Token(s))),
                           !.nodes = NewChild(@, s.node, RequiredUseBranch(Token(s), s.node)),
                           !.node = Len(s.nodes) + 1])

\* Any other token (lines 2489-2502)
RuOtherToken(s) ==
    IF s.need_bracket THEN RuRaise(s)
    ELSE IF EndsWithQ(Token(s)) THEN RuOperatorToken(s)
    ELSE LET satisfied == ru_is_active(s, Token(s))
         IN  IF satisfied = "raise" THEN RuRaise(s)
             ELSE Advance([s EXCEPT
                     !.stack = StAppend(@, s.level, Verdict(satisfied = "True")),
                     !.nodes = NewChild(@, s.node, RequiredUseLeaf(Token(s), satisfied = "True"))])

\* One turn of the loop over mysplit (line 2394).
RuLoopBody(s) ==
    IF Token(s) = LPAREN THEN RuOpenParen(s)
    ELSE IF Token(s) = RPAREN THEN RuCloseParen(s)
    ELSE IF Token(s) \in valid_operators(s) THEN RuOperatorToken(s)
    ELSE RuOtherToken(s)

\* After the loop (lines 2504-2508)
RuEndOfString(s) ==
    IF s.level # 0 \/ s.need_bracket THEN RuRaise(s)
    ELSE [s EXCEPT !.status = "returned",
                   !.nodes = [@ EXCEPT ![1].satisfied = ~HasFalse(s.stack[1])],
                   !.stack = <<>>]

\* The frame of check_required_use at the top of its loop; node 1 is tree.
RuFrame(tokens, use, iuse, at_most_one_of, empty_true) ==
    [mysplit |-> tokens, pos |-> 0, use |-> use, iuse |-> iuse,
     required_use_at_most_one_of |-> at_most_one_of,
     empty_groups_always_true |-> empty_true,
     level |-> 0, stack |-> << <<>> >>, nodes |-> <<RequiredUseBranch(NoOperator, 0)>>,
     node |-> 1, need_bracket |-> FALSE, status |-> "loop"]

\* _RequiredUseBranch.tounicode and _RequiredUseLeaf.tounicode: the tokens of
\* the string (the string is the tokens joined by single spaces).
RECURSIVE complex_nesting(_, _)
complex_nesting(nodes, node) ==
    IF node = 0 THEN FALSE
    ELSE IF nodes[node].operator \in {ANYOF, XORTOK, ATMOSTTOK} THEN TRUE
    ELSE complex_nesting(nodes, nodes[node].parent)

RECURSIVE tounicode(_, _)
RECURSIVE tounicode_children(_, _, _)
\* The rendering that leaves out satisfied children everywhere: C4 tells it
\* from tounicode_children.
RECURSIVE tounicode_children_Unsatisfied(_, _, _)
tounicode_children_Unsatisfied(nodes, children, all) ==
    IF Len(children) = 0 THEN <<>>
    ELSE (IF ~nodes[children[1]].satisfied THEN tounicode(nodes, children[1]) ELSE <<>>)
         \o tounicode_children_Unsatisfied(nodes, Tail1(children), all)

tounicode_children(nodes, children, all) ==
    IF Len(children) = 0 THEN <<>>
    ELSE (IF all \/ ~nodes[children[1]].satisfied THEN tounicode(nodes, children[1]) ELSE <<>>)
         \o tounicode_children(nodes, Tail1(children), all)

tounicode(nodes, node) ==
    IF nodes[node].leaf THEN <<nodes[node].token>>
    ELSE LET include_parens == nodes[node].parent # 0
         IN  (IF nodes[node].operator # NoOperator THEN <<nodes[node].operator>> ELSE <<>>)
             \o (IF include_parens THEN <<LPAREN>> ELSE <<>>)
             \o tounicode_children(nodes, nodes[node].children, complex_nesting(nodes, node))
             \o (IF include_parens THEN <<RPAREN>> ELSE <<>>)

\* ---------------------------------------------------------------- inputs
RuMinToClose(tokens) ==
    NumOpen(tokens)
    + (IF Len(tokens) > 0 /\ Last(tokens) \notin {LPAREN, RPAREN} /\ Len(Last(tokens)) = 2
          /\ Last(tokens) # NotFlagA
       THEN 2 ELSE 0)

RuLeafTokens == {FlagA, NotFlagA, FlagX}
RuNumLeaves(tokens) == Cardinality({i \in 1..Len(tokens) : tokens[i] \in RuLeafTokens})

\* The tokens that may follow the ones read so far, as long as a string of at
\* most MaxLenRU tokens can still close every group.
RuNextTokens(tokens) ==
    {t \in {LPAREN, RPAREN, ANYOF, XORTOK, ATMOSTTOK, CondX}
           \cup (IF RuNumLeaves(tokens) < MaxLeavesRU THEN RuLeafTokens ELSE {}) :
        Len(tokens) + 1 + RuMinToClose(Append(tokens, t)) <= MaxLenRU}

RuReveal(s) ==
    {[s EXCEPT !.mysplit = Append(@, t)] : t \in RuNextTokens(s.mysplit)}

RuInit ==
    /\ \E use \in SUBSET {FlagA, FlagX}, amo \in BOOLEAN, egat \in BOOLEAN :
          ru = RuFrame(<<>>, use, {FlagA, FlagX}, amo, egat)
    /\ ur = Idle /\ heap = <<>> /\ cache = <<>> /\ held = {} /\ first = <<>>
    /\ ud = Idle /\ at = Idle /\ ml = Idle /\ cc = Idle /\ db = Idle

RuOpen ==
    /\ ru.status = "loop"
    /\ \E s \in RuReveal(ru) : Token(s) = LPAREN /\ ru' = RuOpenParen(s)
    /\ UNCHANGED <<ur, heap, cache, held, first, ud, at, ml, cc, db>>
RuClose ==
    /\ ru.status = "loop"
    /\ \E s \in RuReveal(ru) : Token(s) = RPAREN /\ ru' = RuCloseParen(s)
    /\ UNCHANGED <<ur, heap, cache, held, first, ud, at, ml, cc, db>>
RuOperator ==
    /\ ru.status = "loop"
    /\ \E s \in RuReveal(ru) : Token(s) \in valid_operators(s) /\ ru' = RuOperatorToken(s)
    /\ UNCHANGED <<ur, heap, cache, held, first, ud, at, ml, cc, db>>
RuOther ==
    /\ ru.status = "loop"
    /\ \E s \in RuReveal(ru) :
         /\ Token(s) \notin {LPAREN, RPAREN} \cup valid_operators(s)
         /\ ru' = RuOtherToken(s)
    /\ UNCHANGED <<ur, heap, cache, held, first, ud, at, ml, cc, db>>
RuEnd ==
    /\ ru.status = "loop"
    /\ ru' = RuEndOfString(ru)
    /\ UNCHANGED <<ur, heap, cache, held, first, ud, at, ml, cc, db>>

RuNext == RuOpen \/ RuClose \/ RuOperator \/ RuOther \/ RuEnd

SpecRequiredUse == RuInit /\ [][RuNext]_vars

\* ------------------------------------ what the REQUIRED_USE claims speak of
RuReturned == ru.status = "returned"
RuOperators == {ANYOF, XORTOK, ATMOSTTOK}
RuIsConditional(t) == EndsWithQ(t) /\ t # ATMOSTTOK

\* A flag token under a USE set: flag for enabled, !flag for not enabled.
RuLeafActive(use, t) == IF StartsWithBang(t) THEN Tail1(t) \notin use ELSE t \in use

All(vals) == \A i \in 1..Len(vals) : vals[i]
NumTrue(vals) == Cardinality({i \in 1..Len(vals) : vals[i]})

\* The truth table as C2 states it, bottom-up over a well-formed string: the
\* verdicts of the entries from token i up to the ")" that closes their group
\* (or the end of the string), and the place of that ")".  Every group and
\* every conditional, active or not, is an entry of the group around it.
RECURSIVE TruthTable(_, _, _, _)
TruthTable(tokens, i, use, empty_true) ==
    IF i > Len(tokens) \/ tokens[i] = RPAREN THEN [vals |-> <<>>, next |-> i]
    ELSE LET t == tokens[i]
             grouped == t = LPAREN \/ t \in RuOperators \/ EndsWithQ(t)
             body == TruthTable(tokens, IF t = LPAREN THEN i + 1 ELSE i + 2, use, empty_true)
             rest == TruthTable(tokens, IF grouped THEN body.next + 1 ELSE i + 1, use, empty_true)
             v == IF t = LPAREN THEN All(body.vals)
                  ELSE IF t = ANYOF
                  THEN NumTrue(body.vals) >= 1 \/ (Len(body.vals) = 0 /\ empty_true)
                  ELSE IF t = XORTOK THEN NumTrue(body.vals) = 1
                  ELSE IF t = ATMOSTTOK THEN NumTrue(body.vals) <= 1
                  ELSE IF EndsWithQ(t) THEN ~CondActive(use, t) \/ All(body.vals)
                  ELSE RuLeafActive(use, t)
         IN  [vals |-> <<v>> \o rest.vals, next |-> rest.next]

\* The truth table with entries: an inactive conditional and a plain group
\* without entries are no entry of the group around them, and an operator
\* group or active conditional without entries is satisfied where empty
\* groups are always true.
RECURSIVE EntryTable(_, _, _, _)
EntryTable(tokens, i, use, empty_true) ==
    IF i > Len(tokens) \/ tokens[i] = RPAREN THEN [vals |-> <<>>, next |-> i]
    ELSE LET t == tokens[i]
             grouped == t = LPAREN \/ t \in RuOperators \/ EndsWithQ(t)
             body == EntryTable(tokens, IF t = LPAREN THEN i + 1 ELSE i + 2, use, empty_true)
             rest == EntryTable(tokens, IF grouped THEN body.next + 1 ELSE i + 1, use, empty_true)
             isentry == IF t = LPAREN THEN Len(body.vals) > 0
                        ELSE IF RuIsConditional(t) THEN CondActive(use, t)
                        ELSE TRUE
             v == IF t = LPAREN THEN All(body.vals)
                  ELSE IF grouped /\ Len(body.vals) = 0 /\ empty_true THEN TRUE
                  ELSE IF t = ANYOF THEN NumTrue(body.vals) >= 1
                  ELSE IF t = XORTOK THEN NumTrue(body.vals) = 1
                  ELSE IF t = ATMOSTTOK THEN NumTrue(body.vals) <= 1
                  ELSE IF EndsWithQ(t) THEN All(body.vals)
                  ELSE RuLeafActive(use, t)
         IN  [vals |-> (IF isentry THEN <<v>> ELSE <<>>) \o rest.vals, next |-> rest.next]

\* The tokens of a well-formed string, brackets aside, that no inactive
\* conditional encloses, in input order (an inactive conditional encloses
\* itself).
RECURSIVE RuActiveTokens(_, _, _, _, _)
RuActiveTokens(use, tokens, i, open, pending) ==
    IF i > Len(tokens) THEN <<>>
    ELSE LET t == tokens[i]
             here == Last(open)
         IN  IF t = LPAREN
             THEN RuActiveTokens(use, tokens, i + 1, Append(open, here /\ pending), TRUE)
             ELSE IF t = RPAREN
             THEN RuActiveTokens(use, tokens, i + 1, ButLast(open), TRUE)
             ELSE IF RuIsConditional(t)
             THEN (IF here /\ CondActive(use, t) THEN <<t>> ELSE <<>>)
                  \o RuActiveTokens(use, tokens, i + 1, open, CondActive(use, t))
             ELSE (IF here THEN <<t>> ELSE <<>>)
                  \o RuActiveTokens(use, tokens, i + 1, open, TRUE)

\* The nodes of the tree below the given children, and its leaves in order.
RECURSIVE TreeNodes(_, _)
TreeNodes(nodes, children) ==
    IF Len(children) = 0 THEN {}
    ELSE {children[1]} \cup TreeNodes(nodes, nodes[children[1]].children)
         \cup TreeNodes(nodes, Tail1(children))

RECURSIVE TreeLeaves(_, _)
TreeLeaves(nodes, children) ==
    IF Len(children) = 0 THEN <<>>
    ELSE (IF nodes[children[1]].leaf THEN <<nodes[children[1]].token>>
          ELSE TreeLeaves(nodes, nodes[children[1]].children))
         \o TreeLeaves(nodes, Tail1(children))

\* A node rendered from the root down: inside says whether a "||", "^^" or
\* "??" group lies around the node.
RECURSIVE Render(_, _, _)
RECURSIVE RenderChildren(_, _, _)
RenderChildren(nodes, children, every) ==
    IF Len(children) = 0 THEN <<>>
    ELSE (IF every \/ ~nodes[children[1]].satisfied
          THEN Render(nodes, children[1], every) ELSE <<>>)
         \o RenderChildren(nodes, Tail1(children), every)

Render(nodes, node, inside) ==
    IF nodes[node].leaf THEN <<nodes[node].token>>
    ELSE LET every == inside \/ nodes[node].operator \in RuOperators
         IN  (IF nodes[node].operator # NoOperator THEN <<nodes[node].operator>> ELSE <<>>)
             \o (IF node # 1 THEN <<LPAREN>> ELSE <<>>)
             \o RenderChildren(nodes, nodes[node].children, every)
             \o (IF node # 1 THEN <<RPAREN>> ELSE <<>>)

\* C2 as stated: the root verdict is the truth table in which every group
\* and every conditional is an entry of its enclosing group, an inactive
\* conditional a satisfied one.
C2_RootIsTruthTable ==
    RuReturned
       => ru.nodes[1].satisfied
          = All(TruthTable(ru.mysplit, 1, ru.use, ru.empty_groups_always_true).vals)

\* C2 amended: the root verdict is the truth table in which an inactive
\* conditional and a plain group without entries contribute no entry to the
\* enclosing group, and "||", "^^", "??" and an active conditional without
\* entries are satisfied where empty groups are always true.
C2_RootIsEntryTable ==
    RuReturned
       => ru.nodes[1].satisfied
          = All(EntryTable(ru.mysplit, 1, ru.use, ru.empty_groups_always_true).vals)

\* "^^ ( a x? ( a ) )" with USE {a}: the inactive conditional is no entry and
\* exactly one entry of the group is satisfied.
C2_Witness ==
    /\ RuReturned
    /\ ru.mysplit = <<XORTOK, LPAREN, FlagA, CondX, LPAREN, FlagA, RPAREN, RPAREN>>
    /\ ru.use = {FlagA}
    /\ ru.nodes[1].satisfied

\* C3: "|| ( )" with the empty USE set is satisfied where empty groups are
\* always true and unsatisfied where they are not.
C3_EmptyAnyOf ==
    (RuReturned /\ ru.mysplit = <<ANYOF, LPAREN, RPAREN>> /\ ru.use = {})
       => ru.nodes[1].satisfied = ru.empty_groups_always_true

\* "|| ( )" with the empty USE set came back unsatisfied.
C3_Witness ==
    /\ RuReturned /\ ru.mysplit = <<ANYOF, LPAREN, RPAREN>> /\ ru.use = {}
    /\ ~ru.empty_groups_always_true /\ ~ru.nodes[1].satisfied

\* C4: tounicode of the returned tree renders, in a branch that neither is
\* nor lies inside a "||", "^^" or "??" group, only the unsatisfied children,
\* and in a branch that is or lies inside one every child; "^^ ( a x )" is
\* satisfied with USE {a}, and with USE {a, x} it is violated and rendered in
\* full.
C4_Explanation ==
    RuReturned
       => /\ \A n \in {1} \cup TreeNodes(ru.nodes, ru.nodes[1].children) :
                tounicode(ru.nodes, n)
                = Render(ru.nodes, n, n # 1 /\ complex_nesting(ru.nodes, ru.nodes[n].parent))
          /\ tounicode(ru.nodes, 1) = Render(ru.nodes, 1, FALSE)
          /\ (ru.mysplit = <<XORTOK, LPAREN, FlagA, FlagX, RPAREN>> /\ ru.use = {FlagA})
                => ru.nodes[1].satisfied
          /\ (ru.mysplit = <<XORTOK, LPAREN, FlagA, FlagX, RPAREN>> /\ ru.use = {FlagA, FlagX})
                => (~ru.nodes[1].satisfied /\ tounicode(ru.nodes, 1) = ru.mysplit)

\* "|| ( a ( a x ) )" with USE {x} : the plain group inside the "||" is
\* rendered with its satisfied child.
C4_Witness ==
    /\ RuReturned
    /\ ru.mysplit = <<ANYOF, LPAREN, FlagA, LPAREN, FlagA, FlagX, RPAREN, RPAREN>>
    /\ ru.use = {FlagX}
    /\ tounicode(ru.nodes, 1) = ru.mysplit

\* C5: the returned tree holds no node of an inactive conditional and none
\* of its descendants: its leaves are the flag tokens that no inactive
\* conditional encloses, and tounicode of the root mentions only tokens that
\* occur outside every inactive conditional.
C5_InactiveSplicedOut ==
    RuReturned
       => LET tree == TreeNodes(ru.nodes, ru.nodes[1].children)
              active == RuActiveTokens(ru.use, ru.mysplit, 1, <<TRUE>>, TRUE)
              text == tounicode(ru.nodes, 1)
          IN  /\ \A n \in tree :
                    (~ru.nodes[n].leaf /\ ru.nodes[n].operator # NoOperator
                       /\ RuIsConditional(ru.nodes[n].operator))
                       => CondActive(ru.use, ru.nodes[n].operator)
              /\ TreeLeaves(ru.nodes, ru.nodes[1].children) = Filter(active, RuLeafTokens)
              /\ \A j \in 1..Len(text) :
                    text[j] \in {LPAREN, RPAREN} \cup {active[k] : k \in 1..Len(active)}

\* "a x? ( !a x )" with the empty USE set: the tree holds the leaf a alone.
C5_Witness ==
    /\ RuReturned
    /\ ru.mysplit = <<FlagA, CondX, LPAREN, NotFlagA, FlagX, RPAREN>>
    /\ ru.use = {}
    /\ TreeLeaves(ru.nodes, ru.nodes[1].children) = <<FlagA>>
    /\ tounicode(ru.nodes, 1) = <<FlagA>>

\* C27: the assertion "node is not last child of parent" never fails and
\* the call ends only by returning or by InvalidDependString: at the top of
\* the loop the current node is a node of the tree, it is the root whenever
\* no group is open and no "(" is awaited, and below the root it is the last
\* child of its parent, so a ")" always finds it there.
C27_AssertionNeverFails ==
    /\ ru.status \in {"loop", "returned", "InvalidDependString"}
    /\ ru.status = "loop" =>
         /\ ru.node \in 1..Len(ru.nodes)
         /\ (ru.level > 0 \/ ru.need_bracket) => ru.node # 1
         /\ ru.node # 1 =>
              /\ ru.nodes[ru.node].parent \in 1..Len(ru.nodes)
              /\ PopsNode(ru.nodes, ru.nodes[ru.node].parent, ru.node)

\* "|| ( a ( x ) )": the ")" of the inner group took its node out of the
\* "||" node, which is the current node again, with the leaves a and x.
C27_Witness ==
    /\ ru.status = "loop"
    /\ ru.mysplit = <<ANYOF, LPAREN, FlagA, LPAREN, FlagX, RPAREN>>
    /\ ru.pos = 6
    /\ ru.node = 2
    /\ Len(ru.nodes[2].children) = 2
    /\ \A i \in 1..2 : ru.nodes[ru.nodes[2].children[i]].leaf

\* C28: the returned tree is satisfied iff tounicode of its root is the
\* empty string.
C28_SatisfiedIffNoExplanation ==
    RuReturned => (ru.nodes[1].satisfied <=> tounicode(ru.nodes, 1) = <<>>)

\* ================================================ use_reduce and its cache
\* The most list objects of the process, and the longest list an append by
\* a caller makes.
MaxHeap == 4
MaxListLen == 3

\* A member of a list object: a str, or a reference to another list object
\* (heap[id] holds the members of list object id).
HTok(t) == [isref |-> FALSE, tok |-> t, ref |-> 0]
HRef(id) == [isref |-> TRUE, tok |-> <<>>, ref |-> id]

\* The list objects _use_reduce_cached builds for a result: one for the
\* result and one for each nested list.
RECURSIVE AllocMembers(_, _)
AllocList(h, xs) ==
    LET m == AllocMembers(h, xs)
    IN  [heap |-> Append(m.heap, m.members), id |-> Len(m.heap) + 1]
AllocMembers(h, xs) ==
    IF Len(xs) = 0 THEN [heap |-> h, members |-> <<>>]
    ELSE LET x == xs[1]
             a == AllocList(h, x.items)
             rest == AllocMembers(IF x.list THEN a.heap ELSE h, Tail1(xs))
         IN  [heap |-> rest.heap,
              members |-> <<IF x.list THEN HRef(a.id) ELSE HTok(x.tok)>> \o rest.members]

\* The tree a list object holds.
RECURSIVE Value(_, _)
RECURSIVE ValueMembers(_, _)
ValueMembers(h, ms) ==
    IF Len(ms) = 0 THEN <<>>
    ELSE <<IF ms[1].isref THEN Lst(Value(h, ms[1].ref)) ELSE Tok(ms[1].tok)>>
         \o ValueMembers(h, Tail1(ms))
Value(h, id) == ValueMembers(h, h[id])

\* The list objects that members of the given list objects refer to.
Refs(h, ids) == {r \in 1..Len(h) : \E i \in ids : \E j \in 1..Len(h[i]) :
                    h[i][j].isref /\ h[i][j].ref = r}

\* The dependency strings of the calls, and the keys of the lru_cache: the
\* arguments of _use_reduce_cached that differ between the calls.
CachedDepstrs ==
    {<<Leaf(1)>>,
     <<ANYOF, LPAREN, Leaf(1), Leaf(2), RPAREN>>,
     <<ANYOF, Leaf(1)>>}
CacheKeys == [depstr : CachedDepstrs, opconvert : BOOLEAN]
KeyArgs(k) ==
    [uselist |-> {}, masklist |-> {}, excludeall |-> {}, matchall |-> FALSE,
     matchnone |-> FALSE, is_src_uri |-> FALSE, opconvert |-> k.opconvert,
     flat |-> FALSE, empty_groups_always_true |-> FALSE, src_uri_arrows |-> TRUE,
     selective_src_uri_restriction |-> TRUE]

NoResult == [status |-> "none"]

CacheInit ==
    /\ heap = <<>>
    /\ cache = [k \in CacheKeys |-> 0]
    /\ held = {}
    /\ first = [k \in CacheKeys |-> NoResult]
    /\ ur = Idle /\ ru = Idle /\ ud = Idle /\ at = Idle /\ ml = Idle /\ cc = Idle /\ db = Idle

\* use_reduce(depstr, ...): the memoized _use_reduce_cached, which keeps the
\* list it returned under the key of its arguments and caches no exception,
\* then return result[:], a new list with the members of the cached one.
use_reduce(k) ==
    LET hit == cache[k] # 0
        computed == _use_reduce_cached(KeyArgs(k), k.depstr)
    IN  IF ~hit /\ computed.status # "returned"
        THEN /\ ur' = [status |-> computed.status, key |-> k]
             /\ UNCHANGED <<heap, cache, held, first, ud, at, ml, cc, db>>
        ELSE LET a == IF hit THEN [heap |-> heap, id |-> cache[k]]
                      ELSE AllocList(heap, computed.result)
                 heap1 == Append(a.heap, a.heap[a.id])
                 copy == Len(heap1)
                 returned == [status |-> "returned", key |-> k, result |-> Value(heap1, copy)]
             IN  /\ Len(heap1) <= MaxHeap
                 /\ heap' = heap1
                 /\ cache' = [cache EXCEPT ![k] = a.id]
                 /\ held' = held \cup {copy}
                 /\ ur' = returned
                 /\ first' = IF first[k] = NoResult THEN [first EXCEPT ![k] = returned]
                             ELSE first

UseReduce ==
    /\ \E k \in CacheKeys : use_reduce(k)
    /\ UNCHANGED <<ru, ud, at, ml, cc, db>>

\* The caller modifies a list it got, or a list nested in it at any depth:
\* list.append(token) and list.pop().
CallerAppend ==
    /\ \E id \in held \cup Refs(heap, held) \cup Refs(heap, Refs(heap, held)) :
          /\ Len(heap[id]) < MaxListLen
          /\ heap' = [heap EXCEPT ![id] = Append(@, HTok(<<"Z">>))]
    /\ UNCHANGED <<ur, ru, cache, held, first, ud, at, ml, cc, db>>
CallerPop ==
    /\ \E id \in held \cup Refs(heap, held) \cup Refs(heap, Refs(heap, held)) :
          /\ Len(heap[id]) > 0
          /\ heap' = [heap EXCEPT ![id] = ButLast(@)]
    /\ UNCHANGED <<ur, ru, cache, held, first, ud, at, ml, cc, db>>

CacheNext == UseReduce \/ CallerAppend \/ CallerPop

SpecCache == CacheInit /\ [][CacheNext]_vars

\* C1: whatever the caller did to the results it got, a call returns the tree
\* that the first call with equal arguments returned.
C1_LaterCallReturnsFirst ==
    ur.status = "returned" => ur.result = first[ur.key].result

\* ================================================================ _use_dep
\* The USE dependencies of an atom, "[" token "," token ... "]".
MaxUseTokens == 2

PLUS == <<"(", "+", ")">>
MINUS == <<"(", "-", ")">>
FlagY == <<"y">>

\* _get_usedep_re (lines 198-202): prefix [!-]?, flag, default (+) or (-) or
\* nothing, suffix [?=]?.  No flag character is one of "!", "(", ")", "?",
\* "=", and a flag starts with a letter or digit, so the match is the only
\* way to cut x.
usedep_re_match(x) ==
    LET p == IF Len(x) > 0 /\ x[1] \in {"!", "-"} THEN 1 ELSE 0
        q == IF Len(x) > p /\ x[Len(x)] \in {"?", "="} THEN 1 ELSE 0
        body == SubSeq(x, p + 1, Len(x) - q)
        d == IF Len(body) >= 3 /\ SubSeq(body, Len(body) - 2, Len(body)) \in {PLUS, MINUS}
             THEN 3 ELSE 0
        flag == SubSeq(body, 1, Len(body) - d)
    IN  [ok |-> useflag_re_match(flag),
         prefix |-> SubSeq(x, 1, p),
         flag |-> flag,
         default |-> SubSeq(body, Len(body) - d + 1, Len(body)),
         suffix |-> SubSeq(x, Len(x) - q + 1, Len(x))]

\* The conditional dict of the methods: the flags under "enabled" (flag?),
\* "disabled" (!flag?), "equal" (flag=) and "not_equal" (!flag=).
NoConditional == [enabled |-> {}, disabled |-> {}, equal |-> {}, not_equal |-> {}]

\* self.conditional: None for an empty dict, else the _conditionals_class
\* object holding the four sets (lines 1099-1102, 1164-1167).
Conditional(dict) ==
    IF dict = NoConditional THEN [none |-> TRUE] @@ NoConditional
    ELSE [none |-> FALSE] @@ dict

\* The operator branch shared by __init__ and violated_conditionals
\* (lines 1124-1137, 1295-1306): the sets with flag added where operator says.
AddByOperator(acc, operator, flag) ==
    IF operator = <<>> THEN [acc EXCEPT !.enabled_flags = @ \cup {flag}]
    ELSE IF operator = <<"-">> THEN [acc EXCEPT !.disabled_flags = @ \cup {flag}]
    ELSE IF operator = <<"?">> THEN [acc EXCEPT !.conditional.enabled = @ \cup {flag}]
    ELSE IF operator = <<"=">> THEN [acc EXCEPT !.conditional.equal = @ \cup {flag}]
    ELSE IF operator = <<"!", "=">> THEN [acc EXCEPT !.conditional.not_equal = @ \cup {flag}]
    ELSE IF operator = <<"!", "?">> THEN [acc EXCEPT !.conditional.disabled = @ \cup {flag}]
    ELSE acc

UseOperators == {<<>>, <<"-">>, <<"?">>, <<"=">>, <<"!", "=">>, <<"!", "?">>}

InvalidUseDep(x) == [status |-> "InvalidAtom", msg |-> "Invalid use dep", token |-> x]

\* One turn of the loop of __init__ that forgets the flags seen without a
\* default: C13 tells it from InitToken.
InitToken_ForgetsNoDefault(acc, x) ==
    LET m == usedep_re_match(x)
        operator == m.prefix \o m.suffix
        flag == m.flag
        acc1 == AddByOperator(acc, operator, flag)
    IN  IF ~m.ok THEN InvalidUseDep(x)
        ELSE IF operator \notin UseOperators THEN InvalidUseDep(x)
        ELSE IF m.default = PLUS
        THEN IF flag \in acc.missing_disabled
             THEN InvalidUseDep(x)
             ELSE [acc1 EXCEPT !.missing_enabled = @ \cup {flag}]
        ELSE IF m.default = MINUS
        THEN IF flag \in acc.missing_enabled
             THEN InvalidUseDep(x)
             ELSE [acc1 EXCEPT !.missing_disabled = @ \cup {flag}]
        ELSE [acc1 EXCEPT !.no_default = @ \cup {flag}]

\* One turn of the loop of __init__ (lines 1115-1149).
InitToken(acc, x) ==
    LET m == usedep_re_match(x)
        operator == m.prefix \o m.suffix
        flag == m.flag
        acc1 == AddByOperator(acc, operator, flag)
    IN  IF ~m.ok THEN InvalidUseDep(x)
        ELSE IF operator \notin UseOperators THEN InvalidUseDep(x)
        ELSE IF m.default = PLUS
        THEN IF flag \in acc.missing_disabled \/ flag \in acc.no_default
             THEN InvalidUseDep(x)
             ELSE [acc1 EXCEPT !.missing_enabled = @ \cup {flag}]
        ELSE IF m.default = MINUS
        THEN IF flag \in acc.missing_enabled \/ flag \in acc.no_default
             THEN InvalidUseDep(x)
             ELSE [acc1 EXCEPT !.missing_disabled = @ \cup {flag}]
        ELSE IF flag \in acc.missing_enabled \/ flag \in acc.missing_disabled
             THEN InvalidUseDep(x)
             ELSE [acc1 EXCEPT !.no_default = @ \cup {flag}]

\* The loop over use from token i on.
RECURSIVE InitLoop(_, _, _)
InitLoop(acc, use, i) ==
    IF acc.status # "loop" \/ i > Len(use) THEN acc
    ELSE InitLoop(InitToken(acc, use[i]), use, i + 1)

\* A _use_dep object with the given fields.
UseDep(tokens, required, enabled, disabled, missing_enabled, missing_disabled, dict) ==
    [status |-> "ok", tokens |-> tokens, required |-> required,
     enabled |-> enabled, disabled |-> disabled,
     missing_enabled |-> missing_enabled, missing_disabled |-> missing_disabled,
     conditional |-> Conditional(dict)]

\* _use_dep(use, eapi_attrs): the object, or the InvalidAtom raised
\* (lines 1106-1167).
_use_dep(use) ==
    LET acc == InitLoop([status |-> "loop", enabled_flags |-> {}, disabled_flags |-> {},
                         missing_enabled |-> {}, missing_disabled |-> {},
                         no_default |-> {}, conditional |-> NoConditional], use, 1)
    IN  IF acc.status # "loop" THEN acc
        ELSE UseDep(use, acc.no_default, acc.enabled_flags, acc.disabled_flags,
                    acc.missing_enabled, acc.missing_disabled, acc.conditional)

\* evaluate_conditionals that lets "flag?" through when flag is not in use:
\* C14 tells it from EvaluateToken.
EvaluateToken_KeepsDisabled(acc, x, use) ==
    LET m == usedep_re_match(x)
        operator == m.prefix \o m.suffix
        flag == m.flag
        on == [acc EXCEPT !.enabled_flags = @ \cup {flag},
                          !.tokens = Append(@, flag \o m.default)]
        off == [acc EXCEPT !.disabled_flags = @ \cup {flag},
                           !.tokens = Append(@, <<"-">> \o flag \o m.default)]
    IN  IF operator = <<"?">> THEN on
        ELSE IF operator = <<"=">> THEN (IF flag \in use THEN on ELSE off)
        ELSE IF operator = <<"!", "=">> THEN (IF flag \in use THEN off ELSE on)
        ELSE IF operator = <<"!", "?">> THEN (IF flag \notin use THEN off ELSE acc)
        ELSE [acc EXCEPT !.tokens = Append(@, x)]

\* One turn of the loop of evaluate_conditionals (lines 1215-1247).
EvaluateToken(acc, x, use) ==
    LET m == usedep_re_match(x)
        operator == m.prefix \o m.suffix
        flag == m.flag
        on == [acc EXCEPT !.enabled_flags = @ \cup {flag},
                          !.tokens = Append(@, flag \o m.default)]
        off == [acc EXCEPT !.disabled_flags = @ \cup {flag},
                           !.tokens = Append(@, <<"-">> \o flag \o m.default)]
    IN  IF operator = <<"?">> THEN (IF flag \in use THEN on ELSE acc)
        ELSE IF operator = <<"=">> THEN (IF flag \in use THEN on ELSE off)
        ELSE IF operator = <<"!", "=">> THEN (IF flag \in use THEN off ELSE on)
        ELSE IF operator = <<"!", "?">> THEN (IF flag \notin use THEN off ELSE acc)
        ELSE [acc EXCEPT !.tokens = Append(@, x)]

RECURSIVE EvaluateLoop(_, _, _, _)
EvaluateLoop(acc, tokens, i, use) ==
    IF i > Len(tokens) THEN acc
    ELSE EvaluateLoop(EvaluateToken(acc, tokens[i], use), tokens, i + 1, use)

\* _use_dep.evaluate_conditionals(use) (lines 1181-1257)
use_dep_evaluate_conditionals(self, use) ==
    LET acc == EvaluateLoop([enabled_flags |-> self.enabled, disabled_flags |-> self.disabled,
                             tokens |-> <<>>], self.tokens, 1, use)
    IN  UseDep(acc.tokens, self.required, acc.enabled_flags, acc.disabled_flags,
               self.missing_enabled, self.missing_disabled, NoConditional)

\* parent_use: None or a set of flags.
NoParentUse == [none |-> TRUE, flags |-> {}]
ParentUse(S) == [none |-> FALSE, flags |-> S]

\* The token x kept by violated_conditionals, with its flag added to the set
\* its operator names.
Keep(acc, x, operator, flag) ==
    [AddByOperator(acc, operator, flag) EXCEPT !.tokens = Append(@, x)]

\* violated_conditionals that asks only is_valid_flag and never the declared
\* defaults: C16 tells it from ViolatedToken.
ViolatedToken_NoDefaults(self, acc, x, other_use, valid, parent_use) ==
    LET m == usedep_re_match(x)
        operator == m.prefix \o m.suffix
        flag == m.flag
        keep == Keep(acc, x, operator, flag)
        in_other == flag \in other_use
        in_parent == flag \in parent_use.flags
        requires_enabled ==
            \/ operator = <<>>
            \/ operator = <<"?">> /\ in_parent
            \/ operator = <<"=">> /\ in_parent
            \/ operator = <<"!", "=">> /\ ~in_parent
        requires_disabled ==
            \/ operator = <<"-">>
            \/ operator = <<"!", "?">> /\ ~in_parent
            \/ operator = <<"=">> /\ ~in_parent
            \/ operator = <<"!", "=">> /\ in_parent
    IN  IF flag \notin valid THEN keep
        ELSE IF (requires_enabled /\ ~in_other) \/ (requires_disabled /\ in_other) THEN keep
        ELSE acc

\* One turn of the loop of violated_conditionals (lines 1287-1375); valid is
\* the set of flags is_valid_flag accepts.
ViolatedToken(self, acc, x, other_use, valid, parent_use) ==
    LET m == usedep_re_match(x)
        operator == m.prefix \o m.suffix
        flag == m.flag
        keep == Keep(acc, x, operator, flag)
        is_valid == flag \in valid
        in_other == flag \in other_use
        in_parent == flag \in parent_use.flags
        m_enabled == flag \in self.missing_enabled
        m_disabled == flag \in self.missing_disabled
    IN  IF ~(is_valid \/ m_enabled \/ m_disabled) THEN keep
        ELSE IF operator = <<>>
        THEN IF ~in_other /\ (is_valid \/ m_disabled) THEN keep ELSE acc
        ELSE IF operator = <<"-">>
        THEN IF ~in_other
             THEN (IF ~is_valid /\ m_enabled THEN keep ELSE acc)
             ELSE keep
        ELSE IF operator = <<"?">>
        THEN IF ~in_parent \/ in_other THEN acc
             ELSE IF is_valid \/ m_disabled THEN keep ELSE acc
        ELSE IF operator = <<"=">>
        THEN IF in_parent /\ ~in_other
             THEN (IF is_valid THEN keep ELSE IF m_disabled THEN keep ELSE acc)
             ELSE IF ~in_parent
             THEN IF ~in_other
                  THEN (IF ~is_valid /\ m_enabled THEN keep ELSE acc)
                  ELSE keep
             ELSE acc
        ELSE IF operator = <<"!", "=">>
        THEN IF ~in_parent /\ ~in_other
             THEN (IF is_valid THEN keep ELSE IF m_disabled THEN keep ELSE acc)
             ELSE IF in_parent
             THEN IF ~in_other
                  THEN (IF ~is_valid /\ m_enabled THEN keep ELSE acc)
                  ELSE keep
             ELSE acc
        ELSE IF operator = <<"!", "?">>
        THEN IF ~in_parent
             THEN IF ~in_other
                  THEN (IF ~is_valid /\ m_enabled THEN keep ELSE acc)
                  ELSE keep
             ELSE acc
        ELSE acc

RECURSIVE ViolatedLoop(_, _, _, _, _, _)
ViolatedLoop(self, acc, i, other_use, valid, parent_use) ==
    IF i > Len(self.tokens) THEN acc
    ELSE ViolatedLoop(self, ViolatedToken(self, acc, self.tokens[i], other_use, valid, parent_use),
                      i + 1, other_use, valid, parent_use)

\* _use_dep.violated_conditionals(other_use, is_valid_flag, parent_use)
\* (lines 1259-1386)
use_dep_violated_conditionals(self, other_use, valid, parent_use) ==
    IF parent_use.none /\ ~self.conditional.none
    THEN [status |-> "InvalidAtom", msg |-> "violated_conditionals needs 'parent_use'",
          token |-> <<>>]
    ELSE LET acc == ViolatedLoop(self, [enabled_flags |-> {}, disabled_flags |-> {},
                                        conditional |-> NoConditional, tokens |-> <<>>],
                                 1, other_use, valid, parent_use)
         IN  UseDep(acc.tokens, self.required, acc.enabled_flags, acc.disabled_flags,
                    self.missing_enabled, self.missing_disabled, acc.conditional)

\* ------------------------------------------------------ _use_dep: inputs
UseFlags == {FlagX, FlagY}
UsePrefixes == {<<>>, <<"!">>, <<"-">>}
UseDefaults == {<<>>, PLUS, MINUS}
UseSuffixes == {<<>>, <<"?">>, <<"=">>}

\* The text of a USE dependency token.
UseToken(p, f, d, s) == p \o f \o d \o s

\* The tokens "[...]".split(",") may hold: every prefix, default and suffix
\* on the flags x and y, and the empty token.
UseTokens ==
    {UseToken(p, f, d, s) : p \in UsePrefixes, f \in UseFlags, d \in UseDefaults, s \in UseSuffixes}
    \cup {<<>>}

UseLists == UNION {[1..n -> UseTokens] : n \in 0..MaxUseTokens}

UdInit ==
    /\ \E use \in UseLists : ud = [status |-> "new", use |-> use]
    /\ ur = Idle /\ ru = Idle /\ at = Idle /\ ml = Idle /\ cc = Idle /\ db = Idle
    /\ heap = <<>> /\ cache = <<>> /\ held = {} /\ first = <<>>

\* _use_dep(use, eapi_attrs)
UdConstruct ==
    /\ ud.status = "new"
    /\ ud' = [status |-> "constructed", use |-> ud.use, result |-> _use_dep(ud.use)]
    /\ UNCHANGED <<ur, ru, heap, cache, held, first, at, ml, cc, db>>

\* The object the next method is called on: the one last made.
UdSelf == ud.result
UdHasSelf == ud.status \in {"constructed", "evaluated"} /\ ud.result.status = "ok"

\* self.evaluate_conditionals(use)
UdEvaluate ==
    /\ UdHasSelf
    /\ \E use \in SUBSET UseFlags :
         ud' = [status |-> "evaluated", self |-> UdSelf, use |-> use,
                result |-> use_dep_evaluate_conditionals(UdSelf, use)]
    /\ UNCHANGED <<ur, ru, heap, cache, held, first, at, ml, cc, db>>

\* self.violated_conditionals(other_use, is_valid_flag, parent_use)
UdViolated ==
    /\ UdHasSelf
    /\ \E other_use \in SUBSET UseFlags, valid \in SUBSET UseFlags,
          parent_use \in {NoParentUse} \cup {ParentUse(S) : S \in SUBSET UseFlags} :
         ud' = [status |-> "violated", self |-> UdSelf, other_use |-> other_use,
                valid |-> valid, parent_use |-> parent_use,
                result |-> use_dep_violated_conditionals(UdSelf, other_use, valid, parent_use)]
    /\ UNCHANGED <<ur, ru, heap, cache, held, first, at, ml, cc, db>>

UdNext == UdConstruct \/ UdEvaluate \/ UdViolated

SpecUseDep == UdInit /\ [][UdNext]_vars

\* ------------------------------------------------------ _use_dep: claims
\* The token x names flag f with default d.
HasDefault(x, f, d) ==
    \E p \in UsePrefixes, s \in UseSuffixes : x = UseToken(p, f, d, s)

\* Two tokens of use give one flag different defaults, or a default and none.
ConflictingDefaults(use) ==
    \E i, j \in 1..Len(use), f \in UseFlags, d, e \in UseDefaults :
        d # e /\ HasDefault(use[i], f, d) /\ HasDefault(use[j], f, e)

\* C13: the constructor ends with a _use_dep or with InvalidAtom; in a
\* _use_dep no flag is in two of missing_enabled, missing_disabled and
\* required; and a token list that gives one flag "(+)" and "(-)", or a
\* default in one token and none in another, in either order, is rejected with
\* InvalidAtom.
C13_OneKindOfDefault ==
    ud.status = "constructed"
       => /\ ud.result.status \in {"ok", "InvalidAtom"}
          /\ ud.result.status = "ok"
                => /\ ud.result.missing_enabled \cap ud.result.missing_disabled = {}
                   /\ ud.result.missing_enabled \cap ud.result.required = {}
                   /\ ud.result.missing_disabled \cap ud.result.required = {}
          /\ ConflictingDefaults(ud.use) => ud.result.status = "InvalidAtom"

\* [x?,x(+)] was rejected at its second token.
C13_Witness ==
    /\ ud.status = "constructed"
    /\ ud.use = <<UseToken(<<>>, FlagX, <<>>, <<"?">>), UseToken(<<>>, FlagX, PLUS, <<>>)>>
    /\ ud.result.status = "InvalidAtom"
    /\ ud.result.token = UseToken(<<>>, FlagX, PLUS, <<>>)

\* The prefix, flag, default and suffix token x is written with.
Parts(x) ==
    CHOOSE q \in UsePrefixes \X UseFlags \X UseDefaults \X UseSuffixes :
        x = UseToken(q[1], q[2], q[3], q[4])

\* The truth table of evaluate_conditionals: the tokens, none or one, that
\* stand for x when the parent's enabled flags are use.
Emitted(x, use) ==
    LET p == Parts(x)[1]
        f == Parts(x)[2]
        d == Parts(x)[3]
        s == Parts(x)[4]
        plain == <<f \o d>>
        minus == <<(<<"-">> \o f \o d)>>
    IN  IF p = <<>> /\ s = <<"?">> THEN (IF f \in use THEN plain ELSE <<>>)
        ELSE IF p = <<>> /\ s = <<"=">> THEN (IF f \in use THEN plain ELSE minus)
        ELSE IF p = <<"!">> /\ s = <<"=">> THEN (IF f \in use THEN minus ELSE plain)
        ELSE IF p = <<"!">> /\ s = <<"?">> THEN (IF f \in use THEN <<>> ELSE minus)
        ELSE <<x>>

RECURSIVE EmittedAll(_, _)
EmittedAll(tokens, use) ==
    IF tokens = <<>> THEN <<>>
    ELSE Emitted(tokens[1], use) \o EmittedAll(Tail1(tokens), use)

\* The flags of the tokens of the form prefix flag default in tokens.
FlagsWritten(tokens, prefix) ==
    {f \in UseFlags : \E i \in 1..Len(tokens), d \in UseDefaults :
                          tokens[i] = UseToken(prefix, f, d, <<>>)}

\* C14: evaluate_conditionals(use) puts for every token, in order, what the
\* truth table gives: flag? is flag if flag is in use and nothing otherwise,
\* flag= is flag or -flag, !flag= is -flag or flag, !flag? is nothing or
\* -flag, any other token is itself, and a default stays on the token; the
\* enabled and disabled sets of the result are the old ones with the flags of
\* the flag and -flag tokens of the result, and the result has no
\* conditionals.
C14_TruthTable ==
    ud.status = "evaluated"
       => /\ ud.result.status = "ok"
          /\ ud.result.tokens = EmittedAll(ud.self.tokens, ud.use)
          /\ ud.result.enabled = ud.self.enabled \cup FlagsWritten(ud.result.tokens, <<>>)
          /\ ud.result.disabled = ud.self.disabled \cup FlagsWritten(ud.result.tokens, <<"-">>)
          /\ ud.result.conditional.none

\* [x(+)?,!y=] under USE {x} became [x(+),y].
C14_Witness ==
    /\ ud.status = "evaluated"
    /\ ud.self.tokens = <<UseToken(<<>>, FlagX, PLUS, <<"?">>), UseToken(<<"!">>, FlagY, <<>>, <<"=">>)>>
    /\ ud.use = {FlagX}
    /\ ud.result.tokens = <<UseToken(<<>>, FlagX, PLUS, <<>>), FlagY>>
    /\ ud.result.enabled = {FlagX, FlagY}

\* The state of flag f in the other package.  A flag is_valid_flag accepts is
\* enabled when it is in other_use; a flag it does not accept goes by its
\* default, enabled for "(+)" and disabled for "(-)".  With other_first a flag
\* in other_use is enabled whether is_valid_flag accepts it or not.
FlagEnabled(self, f, other_use, valid, other_first) ==
    IF f \in valid \/ (other_first /\ f \in other_use) THEN f \in other_use
    ELSE f \in self.missing_enabled

\* Token x asks for something the other package does not give.
NotMet(self, x, other_use, valid, parent_use, other_first) ==
    LET p == Parts(x)[1]
        f == Parts(x)[2]
        s == Parts(x)[4]
        on == FlagEnabled(self, f, other_use, valid, other_first)
        in_parent == f \in parent_use.flags
    IN  \/ f \notin valid \cup self.missing_enabled \cup self.missing_disabled
        \/ p = <<>> /\ s = <<>> /\ ~on
        \/ p = <<"-">> /\ s = <<>> /\ on
        \/ p = <<>> /\ s = <<"?">> /\ in_parent /\ ~on
        \/ p = <<"!">> /\ s = <<"?">> /\ ~in_parent /\ on
        \/ p = <<>> /\ s = <<"=">> /\ (on # in_parent)
        \/ p = <<"!">> /\ s = <<"=">> /\ (on = in_parent)

RECURSIVE NotMetTokens(_, _, _, _, _, _)
NotMetTokens(self, tokens, other_use, valid, parent_use, other_first) ==
    IF tokens = <<>> THEN <<>>
    ELSE (IF NotMet(self, tokens[1], other_use, valid, parent_use, other_first)
          THEN <<tokens[1]>> ELSE <<>>)
         \o NotMetTokens(self, Tail1(tokens), other_use, valid, parent_use, other_first)

\* C16 as stated: violated_conditionals returns, in order, the tokens whose
\* requirement other_use does not meet, a flag is_valid_flag does not accept
\* going by its default alone.
C16_ViolatedByDefault ==
    (ud.status = "violated" /\ ud.result.status = "ok")
       => ud.result.tokens =
             NotMetTokens(ud.self, ud.self.tokens, ud.other_use, ud.valid, ud.parent_use, FALSE)

\* C16, amended: violated_conditionals returns, in order, the tokens whose
\* requirement other_use does not meet, where a flag in other_use is enabled
\* and a flag outside other_use that is_valid_flag does not accept goes by its
\* default; a token whose flag is neither accepted nor has a default is kept.
C16_ViolatedOtherUseFirst ==
    (ud.status = "violated" /\ ud.result.status = "ok")
       => ud.result.tokens =
             NotMetTokens(ud.self, ud.self.tokens, ud.other_use, ud.valid, ud.parent_use, TRUE)

\* [x(+),-y(-)] against a package without x and y in IUSE and USE: x counts
\* as enabled and y as disabled, and nothing is left.
C16_Witness ==
    /\ ud.status = "violated" /\ ud.result.status = "ok"
    /\ ud.self.tokens = <<UseToken(<<>>, FlagX, PLUS, <<>>), UseToken(<<"-">>, FlagY, MINUS, <<>>)>>
    /\ ud.valid = {} /\ ud.other_use = {}
    /\ ud.result.tokens = <<>>

\* ==================================================================== Atom
\* An atom is its text, a sequence of characters, with the fields __init__
\* reads from it.  None is Python's None where a string may stand.
None == <<"None">>

\* str.find(c) + 1: the place of the first c in s, 0 when there is none.
Find(s, c) ==
    IF \E i \in 1..Len(s) : s[i] = c
    THEN CHOOSE i \in 1..Len(s) : s[i] = c /\ \A j \in 1..(i - 1) : s[j] # c
    ELSE 0

\* s[i:] and s[:i] with 1-based i: from place i on, and up to place i.
From(s, i) == SubSeq(s, i, Len(s))
UpTo(s, i) == SubSeq(s, 1, i)

\* remove_slot (lines 1571-1589): the text before the first ":", or else
\* before the first "[".
remove_slot(mydep) ==
    LET colon == Find(mydep, ":")
        bracket == Find(mydep, "[")
    IN  IF colon # 0 THEN UpTo(mydep, colon - 1)
        ELSE IF bracket # 0 THEN UpTo(mydep, bracket - 1)
        ELSE mydep

\* s.split(",")
RECURSIVE Split(_)
Split(s) ==
    LET comma == Find(s, ",")
    IN  IF comma = 0 THEN <<s>>
        ELSE <<UpTo(s, comma - 1)>> \o Split(From(s, comma + 1))

\* ",".join(tokens)
RECURSIVE Join(_)
Join(tokens) ==
    IF tokens = <<>> THEN <<>>
    ELSE IF Len(tokens) = 1 THEN tokens[1]
    ELSE tokens[1] \o <<",">> \o Join(Tail1(tokens))

\* _use_dep.__str__ (lines 1173-1176)
use_dep_str(dep) ==
    IF dep.tokens = <<>> THEN <<>> ELSE <<"[">> \o Join(dep.tokens) \o <<"]">>

\* The category/package names and versions of the model (_cp and _cpv of
\* portage.versions), and the operators of _op (line 74).
CpNames == {<<"c", "/", "p">>, <<"c", "/", "q">>}
Versions ==
    {<<"0">>, <<"1">>, <<"0", "1">>, <<"1", "0">>, <<"1", ".", "2">>, <<"2">>, <<"1", "a">>}
Ops == {<<"=">>, <<"~">>, <<">">>, <<">", "=">>, <<"<">>, <<"<", "=">>}

\* The first alternative of atom_re (lines 124-134) that matches all of h:
\* op cpv, "=" cpv "*", or cp, where cp may carry a version that __init__
\* then refuses (lines 163-164).
MatchHead(h) ==
    IF \E op \in Ops, cp \in CpNames, v \in Versions : h = op \o cp \o <<"-">> \o v
    THEN LET q == CHOOSE q \in Ops \X CpNames \X Versions : h = q[1] \o q[2] \o <<"-">> \o q[3]
         IN  [kind |-> "op", op |-> q[1], cp |-> q[2], cpv |-> q[2] \o <<"-">> \o q[3],
              version |-> q[3]]
    ELSE IF \E cp \in CpNames, v \in Versions : h = <<"=">> \o cp \o <<"-">> \o v \o <<"*">>
    THEN LET q == CHOOSE q \in CpNames \X Versions : h = <<"=">> \o q[1] \o <<"-">> \o q[2] \o <<"*">>
         IN  [kind |-> "star", op |-> <<"=", "*">>, cp |-> q[1], cpv |-> q[1] \o <<"-">> \o q[2],
              version |-> q[2]]
    ELSE IF h \in CpNames
    THEN [kind |-> "simple", op |-> None, cp |-> h, cpv |-> h, version |-> None]
    ELSE IF \E cp \in CpNames, v \in Versions : h = cp \o <<"-">> \o v
    THEN [kind |-> "simple_version", op |-> None, cp |-> h, cpv |-> h, version |-> None]
    ELSE [kind |-> "none", op |-> None, cp |-> None, cpv |-> None, version |-> None]

\* The characters of _slot_loose (line 71) and of _repo_name (line 77) among
\* those the model writes.
WordChars == AlnumChars \cup {"_", "r", "s", "2"}
SlotLooseChars == WordChars \cup {"+", ".", "/", "*", "=", "-"}
RepoNameChars == WordChars \cup {"-"}

MatchesSlotLoose(t) == Len(t) > 0 /\ \A i \in 1..Len(t) : t[i] \in SlotLooseChars
MatchesRepoName(t) ==
    Len(t) > 0 /\ t[1] \in WordChars /\ \A i \in 1..Len(t) : t[i] \in RepoNameChars

\* atom_re.match(s) (lines 115-145): without_use, then "[" ... "]" to the
\* end; in without_use the head, then ":" slot, then "::" repo.  The match
\* is read off in steps: the groups once the slot and repo parts are cut,
MatchGroups(without_use, use_str, use_ok, head, slot, repo_part) ==
    [ok |-> /\ MatchHead(head).kind # "none" /\ use_ok
            /\ slot = None \/ MatchesSlotLoose(slot)
            /\ repo_part = <<>>
                  \/ (Len(repo_part) >= 3 /\ repo_part[2] = ":"
                      /\ MatchesRepoName(From(repo_part, 3))),
     head |-> MatchHead(head), without_use |-> without_use, slot |-> slot,
     repo |-> IF repo_part = <<>> THEN None ELSE From(repo_part, 3),
     use_str |-> use_str, extended |-> FALSE, head_text |-> head,
     tail_ok |-> /\ slot = None \/ MatchesSlotLoose(slot)
                 /\ repo_part = <<>>
                       \/ (Len(repo_part) >= 3 /\ repo_part[2] = ":"
                           /\ MatchesRepoName(From(repo_part, 3)))]

\* the slot and the repo part of rest, the text after a first ":" that does
\* not start "::", where c2 is the place of the next ":",
MatchSlot(without_use, use_str, use_ok, head, rest, c2) ==
    MatchGroups(without_use, use_str, use_ok, head,
                IF c2 = 0 THEN rest ELSE UpTo(rest, c2 - 1),
                IF c2 = 0 THEN <<>> ELSE From(rest, c2))

\* the head and what follows it, where c1 is the place of the first ":",
MatchTail(without_use, use_str, use_ok, c1) ==
    IF c1 = 0 THEN MatchGroups(without_use, use_str, use_ok, without_use, None, <<>>)
    ELSE IF Len(without_use) > c1 /\ without_use[c1 + 1] = ":"
    THEN MatchGroups(without_use, use_str, use_ok, UpTo(without_use, c1 - 1), None,
                     From(without_use, c1))
    ELSE MatchSlot(without_use, use_str, use_ok, UpTo(without_use, c1 - 1),
                   From(without_use, c1 + 1), Find(From(without_use, c1 + 1), ":"))

\* and the USE part, where bracket is the place of the first "[".
MatchUse(s, bracket) ==
    IF bracket = 0 THEN MatchTail(s, None, TRUE, Find(s, ":"))
    ELSE MatchTail(UpTo(s, bracket - 1), From(s, bracket), s[Len(s)] = "]",
                   Find(UpTo(s, bracket - 1), ":"))

atom_re_match(s) == MatchUse(s, Find(s, "["))

\* The names with "*" of the model (_extended_cat and pkg_re, lines 81, 156).
WildcardNames == {<<"*", "/", "*">>, <<"c", "/", "*">>}

\* The head of a text as _get_atom_wildcard_re reads it (lines 151-180): a
\* name with "*", or "=" name "-" "*" word "*"; a name without "*" and a
\* version is refused by __init__ as it is with atom_re (lines 110-111).
WildcardHead(h) ==
    IF h \in WildcardNames
    THEN [kind |-> "simple", op |-> None, cp |-> h, cpv |-> h, version |-> None]
    ELSE IF \E cp \in CpNames \cup WildcardNames : h = <<"=">> \o cp \o <<"-", "*", "1", "*">>
    THEN [kind |-> "star", op |-> <<"=", "*">>, cp |-> SubSeq(h, 2, Len(h) - 4),
          cpv |-> From(h, 2), version |-> <<"*", "1", "*">>]
    ELSE [kind |-> "none", op |-> None, cp |-> None, cpv |-> None, version |-> None]

\* atom_wildcard_re.match(s) and the groups __init__ reads (lines 95-117),
\* where m is what atom_re made of s: the pattern has the slot and the repo
\* of atom_re and no USE deps.
atom_wildcard_re_match(m) ==
    [ok |-> m.tail_ok /\ m.use_str = None /\ WildcardHead(m.head_text).kind # "none",
     head |-> WildcardHead(m.head_text), without_use |-> m.without_use, slot |-> m.slot,
     repo |-> m.repo, use_str |-> None, extended |-> TRUE, head_text |-> m.head_text,
     tail_ok |-> m.tail_ok]

\* _slot of portage.versions: a slot name, [\w+][\w+.-]*
MatchesSlot(t) ==
    /\ Len(t) > 0 /\ t[1] \in WordChars \cup {"+"}
    /\ \A i \in 1..Len(t) : t[i] \in WordChars \cup {"+", ".", "-"}

\* The fields read from slot_re's groups with slot operators (lines
\* 186-202): name is group 1, rest is group 2.
SlotGroups(name, rest) ==
    IF rest \in {<<"*">>, <<"=">>}
    THEN [ok |-> ~(name # <<>> /\ rest = <<"*">>),
          slot |-> IF name = <<>> THEN None ELSE name,
          sub_slot |-> None, slot_operator |-> rest]
    ELSE IF rest = <<>>
    THEN [ok |-> TRUE, slot |-> IF name = <<>> THEN None ELSE name,
          sub_slot |-> None, slot_operator |-> None]
    ELSE IF rest[Len(rest)] = "="
    THEN [ok |-> TRUE, slot |-> IF name = <<>> THEN None ELSE name,
          sub_slot |-> SubSeq(rest, 2, Len(rest) - 1), slot_operator |-> <<"=">>]
    ELSE [ok |-> TRUE, slot |-> IF name = <<>> THEN None ELSE name,
          sub_slot |-> From(rest, 2), slot_operator |-> None]

\* slot_re.match with slot operators, _slot?(\*|=|/_slot=?)?, where name and
\* rest are slot before and from its first "/", "*" or "=".
SlotMatch(name, rest) ==
    IF /\ name = <<>> \/ MatchesSlot(name)
       /\ \/ rest \in {<<>>, <<"*">>, <<"=">>}
          \/ (rest[1] = "/" /\ MatchesSlot(IF rest[Len(rest)] = "="
                                           THEN SubSeq(rest, 2, Len(rest) - 1)
                                           ELSE From(rest, 2)))
    THEN SlotGroups(name, rest)
    ELSE [ok |-> FALSE]

\* The place of the first "/", "*" or "=" of slot, Len(slot) + 1 if none.
SlotCut(slot) ==
    IF \E i \in 1..Len(slot) : slot[i] \in {"/", "*", "="}
    THEN CHOOSE i \in 1..Len(slot) :
             slot[i] \in {"/", "*", "="} /\ \A j \in 1..(i - 1) : slot[j] \notin {"/", "*", "="}
    ELSE Len(slot) + 1

\* slot_re.match(slot) and the fields read from it (lines 182-206): without
\* slot operators the pattern is _slot and the slot is all of it.
SlotFields(slot, slot_operator) ==
    IF slot_operator
    THEN SlotMatch(UpTo(slot, SlotCut(slot) - 1), From(slot, SlotCut(slot)))
    ELSE IF ~MatchesSlot(slot) THEN [ok |-> FALSE]
    ELSE [ok |-> TRUE, slot |-> slot, sub_slot |-> None, slot_operator |-> None]

\* raise InvalidAtom(..., category=...); the category is "None" when none is
\* given.
InvalidAtom(category) == [status |-> "InvalidAtom", category |-> category]

\* The EAPI attributes __init__ reads; eapi None stands for no EAPI, whose
\* attributes allow everything.
NoEapi ==
    [none |-> TRUE, slot_deps |-> TRUE, use_deps |-> TRUE, use_dep_defaults |-> TRUE,
     strong_blocks |-> TRUE, repo_deps |-> TRUE, slot_operator |-> TRUE]

\* No atom, no _use_dep, no is_valid_flag.
NoAtom == [none |-> TRUE, ref |-> 0, use_none |-> TRUE]
NoUse == [none |-> TRUE]
NoValidFlag == [none |-> TRUE, flags |-> {}]

\* The checks of __init__ against the EAPI without the one for strong
\* blocks: C19 tells them from EapiGates.
EapiGates_StrongBlocksPass(self, eapi, is_valid_flag) ==
    IF eapi.none THEN self
    ELSE IF self.slot # None /\ self.slot # <<>> /\ ~eapi.slot_deps
    THEN InvalidAtom("EAPI.incompatible")
    ELSE IF ~self.use.none /\ self.use.dep.tokens # <<>> /\ ~eapi.use_deps
    THEN InvalidAtom("EAPI.incompatible")
    ELSE IF /\ ~self.use.none /\ self.use.dep.tokens # <<>> /\ ~eapi.use_dep_defaults
            /\ (self.use.dep.missing_enabled # {} \/ self.use.dep.missing_disabled # {})
    THEN InvalidAtom("EAPI.incompatible")
    ELSE IF /\ ~self.use.none /\ self.use.dep.tokens # <<>>
            /\ ~is_valid_flag.none /\ ~self.use.dep.conditional.none
            /\ \E f \in self.use.dep.conditional.enabled \cup self.use.dep.conditional.disabled
                         \cup self.use.dep.conditional.equal \cup self.use.dep.conditional.not_equal :
                   f \notin is_valid_flag.flags
    THEN InvalidAtom("IUSE.missing")
    ELSE self

\* The checks of __init__ on a parsed atom when an EAPI is given (lines
\* 244-302): the slot dep, the USE deps, their defaults and the flags of
\* their conditionals, and the strong block.
EapiGates(self, eapi, is_valid_flag) ==
    IF eapi.none THEN self
    ELSE IF self.slot # None /\ self.slot # <<>> /\ ~eapi.slot_deps
    THEN InvalidAtom("EAPI.incompatible")
    ELSE IF ~self.use.none /\ self.use.dep.tokens # <<>> /\ ~eapi.use_deps
    THEN InvalidAtom("EAPI.incompatible")
    ELSE IF /\ ~self.use.none /\ self.use.dep.tokens # <<>> /\ ~eapi.use_dep_defaults
            /\ (self.use.dep.missing_enabled # {} \/ self.use.dep.missing_disabled # {})
    THEN InvalidAtom("EAPI.incompatible")
    ELSE IF /\ ~self.use.none /\ self.use.dep.tokens # <<>>
            /\ ~is_valid_flag.none /\ ~self.use.dep.conditional.none
            /\ \E f \in self.use.dep.conditional.enabled \cup self.use.dep.conditional.disabled
                         \cup self.use.dep.conditional.equal \cup self.use.dep.conditional.not_equal :
                   f \notin is_valid_flag.flags
    THEN InvalidAtom("IUSE.missing")
    ELSE IF self.blocker.is /\ self.blocker.forbid /\ ~eapi.strong_blocks
    THEN InvalidAtom("EAPI.incompatible")
    ELSE self

\* A reference to an atom: the atom itself (self) or the object ref.
Self == [self |-> TRUE]

\* Atom(s, unevaluated_atom, allow_wildcard, allow_repo, _use, eapi,
\* is_valid_flag) (lines 39-302): the object, or the InvalidAtom raised.
\* allow_repo is "None", "True" or "False"; use_id names the _use_dep the call
\* makes.  No version of the model holds a build id (lines 129-144).  The
\* constructor is read off in steps: the object
\* with its fields set (lines 168-242) and the checks against the EAPI,
AtomObject(s0, unevaluated_atom, eapi, is_valid_flag, blocker, m, sf, use, without_use) ==
    EapiGates([status |-> "ok", text |-> s0, eapi |-> eapi, blocker |-> blocker,
               cp |-> m.head.cp, cpv |-> m.head.cpv, version |-> m.head.version,
               repo |-> m.repo, slot |-> sf.slot, sub_slot |-> sf.sub_slot,
               slot_operator |-> sf.slot_operator, operator |-> m.head.op,
               extended_syntax |-> m.extended, build_id |-> None, use |-> use,
               without_use |-> without_use,
               unevaluated_atom |-> IF unevaluated_atom.none THEN Self
                                    ELSE [self |-> FALSE, ref |-> unevaluated_atom.ref]],
              eapi, is_valid_flag)

\* the atom without_use is, which may fail to parse (lines 214-237),
AtomWithoutUse(s0, unevaluated_atom, eapi, is_valid_flag, blocker, m, sf, use, nested) ==
    IF nested.status # "ok" THEN nested
    ELSE AtomObject(s0, unevaluated_atom, eapi, is_valid_flag, blocker, m, sf, use,
                    [self |-> FALSE, atom |-> nested])

\* the refusals of the match, the slot, the repo and the USE deps (lines
\* 94-212),
RECURSIVE Atom(_, _, _, _, _, _, _, _)
AtomMatched(s0, unevaluated_atom, allow_wildcard, allow_repo, eapi, is_valid_flag, blocker, blocker_prefix, m, sf, use) ==
    IF ~m.ok \/ m.head.kind = "simple_version" THEN InvalidAtom("None")
    ELSE IF ~sf.ok THEN InvalidAtom("None")
    ELSE IF ~(m.repo = None \/ allow_repo) THEN InvalidAtom("None")
    ELSE IF ~use.none /\ use.dep.status # "ok" THEN InvalidAtom("None")
    ELSE IF m.use_str # None
    THEN AtomWithoutUse(s0, unevaluated_atom, eapi, is_valid_flag, blocker, m, sf, use,
                        Atom(blocker_prefix \o m.without_use, NoAtom, FALSE,
                             PyBool(allow_repo), NoUse, NoEapi, NoValidFlag, 0))
    ELSE IF ~unevaluated_atom.none /\ ~unevaluated_atom.use_none
    THEN AtomWithoutUse(s0, unevaluated_atom, eapi, is_valid_flag, blocker, m, sf, use,
                        Atom(s0, NoAtom, allow_wildcard, PyBool(allow_repo), NoUse, eapi,
                             NoValidFlag, 0))
    ELSE AtomObject(s0, unevaluated_atom, eapi, is_valid_flag, blocker, m, sf, use, Self)

\* the slot fields and the _use_dep of the match (lines 177-218),
AtomParsed(s0, unevaluated_atom, allow_wildcard, allow_repo, _use, eapi, is_valid_flag, use_id, blocker, blocker_prefix, m) ==
    AtomMatched(s0, unevaluated_atom, allow_wildcard, allow_repo, eapi, is_valid_flag,
                blocker, blocker_prefix, m,
                IF ~m.ok \/ m.slot = None
                THEN [ok |-> TRUE, slot |-> None, sub_slot |-> None, slot_operator |-> None]
                ELSE SlotFields(m.slot, eapi.slot_operator),
                IF ~m.ok \/ m.use_str = None THEN NoUse
                ELSE IF ~_use.none THEN _use
                ELSE [none |-> FALSE, id |-> use_id,
                      dep |-> _use_dep(Split(SubSeq(m.use_str, 2, Len(m.use_str) - 1)))])

\* the match with the wildcard pattern when atom_re did not match and
\* wildcards are allowed (lines 94-99),
AtomRematch(s0, unevaluated_atom, allow_wildcard, allow_repo, _use, eapi, is_valid_flag, use_id, blocker, blocker_prefix, m) ==
    AtomParsed(s0, unevaluated_atom, allow_wildcard, allow_repo, _use, eapi, is_valid_flag,
               use_id, blocker, blocker_prefix,
               IF m.ok \/ ~allow_wildcard THEN m ELSE atom_wildcard_re_match(m))

\* the blocker prefix and the match of what follows it (lines 78-90),
AtomBlocker(s0, unevaluated_atom, allow_wildcard, allow_repo, _use, eapi, is_valid_flag, use_id, blocker, blocker_prefix) ==
    AtomRematch(s0, unevaluated_atom, allow_wildcard, allow_repo, _use, eapi, is_valid_flag,
                use_id, blocker, blocker_prefix,
                atom_re_match(From(s0, Len(blocker_prefix) + 1)))

\* and the default of allow_repo (lines 64-76).
Atom(s0, unevaluated_atom, allow_wildcard, allow_repo0, _use, eapi, is_valid_flag, use_id) ==
    AtomBlocker(s0, unevaluated_atom, allow_wildcard,
                IF allow_repo0 = "None" THEN (IF eapi.none THEN TRUE ELSE eapi.repo_deps)
                ELSE allow_repo0 = "True",
                _use, eapi, is_valid_flag, use_id,
                [is |-> Len(s0) >= 1 /\ s0[1] = "!",
                 forbid |-> Len(s0) >= 2 /\ s0[1] = "!" /\ s0[2] = "!"],
                IF Len(s0) >= 2 /\ s0[1] = "!" /\ s0[2] = "!" THEN UpTo(s0, 2)
                ELSE IF Len(s0) >= 1 /\ s0[1] = "!" THEN UpTo(s0, 1) ELSE <<>>)

\* ------------------------------------------------------- Atom: methods
\* What a method returns: the receiver itself, or the object (or the
\* exception) a constructor call gave.
ReturnSelf(self) == [fresh |-> FALSE, atom |-> self]
ReturnNew(made) == [fresh |-> TRUE, atom |-> made]

\* s.replace(old, "", 1)
RemoveFirst(s, old) ==
    IF \E i \in 1..(Len(s) - Len(old) + 1) : SubSeq(s, i, i + Len(old) - 1) = old
    THEN LET i == CHOOSE i \in 1..(Len(s) - Len(old) + 1) :
                     /\ SubSeq(s, i, i + Len(old) - 1) = old
                     /\ \A j \in 1..(i - 1) : SubSeq(s, j, j + Len(old) - 1) # old
         IN  UpTo(s, i - 1) \o From(s, i + Len(old))
    ELSE s

\* ":" slot "/" sub_slot slot_operator as the methods write it (lines
\* 334-341, 401-408, 439-446)
SlotText(self) ==
    IF self.slot # None \/ self.slot_operator # None
    THEN <<":">> \o (IF self.slot # None THEN self.slot ELSE <<>>)
                 \o (IF self.sub_slot # None THEN <<"/">> \o self.sub_slot ELSE <<>>)
                 \o (IF self.slot_operator # None THEN self.slot_operator ELSE <<>>)
    ELSE <<>>

RepoText(self) == IF self.repo # None THEN <<":", ":">> \o self.repo ELSE <<>>
UseText(self) == IF ~self.use.none THEN use_dep_str(self.use.dep) ELSE <<>>

\* The atom a method parses from the text it wrote: allow_repo and
\* allow_wildcard set, no EAPI (lines 317-319, 330, 345, 353).
Reparsed(text, use_id) ==
    ReturnNew(Atom(text, NoAtom, TRUE, "True", NoUse, NoEapi, NoValidFlag, use_id))

\* Atom.without_repo (lines 313-319)
without_repo(self, use_id) ==
    IF self.repo = None THEN ReturnSelf(self)
    ELSE ReturnNew(Atom(RemoveFirst(self.text, <<":", ":">> \o self.repo),
                        NoAtom, TRUE, "None", NoUse, NoEapi, NoValidFlag, use_id))

\* without_slot that leaves the repo out of the text it writes: C18 tells it
\* from without_slot.
without_slot_DropsRepo(self, use_id) ==
    IF self.slot = None /\ self.slot_operator = None THEN ReturnSelf(self)
    ELSE Reparsed(remove_slot(self.text) \o UseText(self), use_id)

\* Atom.without_slot (lines 321-330)
without_slot(self, use_id) ==
    IF self.slot = None /\ self.slot_operator = None THEN ReturnSelf(self)
    ELSE Reparsed(remove_slot(self.text) \o RepoText(self) \o UseText(self), use_id)

\* Atom.with_repo (lines 332-345)
with_repo(self, repo, use_id) ==
    Reparsed(remove_slot(self.text) \o SlotText(self) \o <<":", ":">> \o repo \o UseText(self),
             use_id)

\* Atom.with_slot (lines 347-353)
with_slot(self, slot, use_id) ==
    Reparsed(remove_slot(self.text) \o <<":">> \o slot \o RepoText(self) \o UseText(self),
             use_id)

\* The atom evaluate_conditionals and violated_conditionals make of the
\* _use_dep they computed (lines 400-416, 438-454); ref is the receiver.
WithUseDep(self, ref, use_dep, use_id) ==
    IF use_dep.status # "ok" THEN ReturnNew(InvalidAtom("None"))
    ELSE ReturnNew(Atom(remove_slot(self.text) \o SlotText(self) \o use_dep_str(use_dep),
                        [none |-> FALSE, ref |-> ref, use_none |-> self.use.none],
                        FALSE, PyBool(self.repo # None),
                        [none |-> FALSE, id |-> use_id, dep |-> use_dep],
                        NoEapi, NoValidFlag, 0))

\* evaluate_conditionals that hands back the atom without its USE deps when
\* there is no conditional to evaluate: C15 tells it from
\* evaluate_conditionals.
evaluate_conditionals_StripsUse(self, ref, use, use_id) ==
    IF self.use.none THEN ReturnSelf(self)
    ELSE IF ~(self.use.dep.tokens # <<>> /\ ~self.use.dep.conditional.none)
    THEN ReturnNew(self.without_use.atom)
    ELSE WithUseDep(self, ref, use_dep_evaluate_conditionals(self.use.dep, use), use_id)

\* Atom.evaluate_conditionals (lines 390-416)
evaluate_conditionals(self, ref, use, use_id) ==
    IF ~(~self.use.none /\ self.use.dep.tokens # <<>> /\ ~self.use.dep.conditional.none)
    THEN ReturnSelf(self)
    ELSE WithUseDep(self, ref, use_dep_evaluate_conditionals(self.use.dep, use), use_id)

\* Atom.violated_conditionals (lines 418-454)
violated_conditionals(self, ref, other_use, valid, parent_use, use_id) ==
    IF ~(~self.use.none /\ self.use.dep.tokens # <<>>) THEN ReturnSelf(self)
    ELSE WithUseDep(self, ref,
                    use_dep_violated_conditionals(self.use.dep, other_use, valid, parent_use),
                    use_id)

\* self.use != other.use: _use_dep defines no __eq__, so two of them are
\* equal only when they are one object.
UseDiffers(a, b) ==
    IF a.use.none \/ b.use.none THEN a.use.none # b.use.none
    ELSE a.use.id # b.use.id

\* Atom.intersects (lines 360-388); Atom defines no __eq__, so self == other
\* compares the texts.
intersects(self, other) ==
    IF self.text = other.text THEN TRUE
    ELSE IF \/ self.cp # other.cp
            \/ UseDiffers(self, other)
            \/ self.operator # other.operator
            \/ self.cpv # other.cpv
    THEN FALSE
    ELSE IF self.slot = None \/ other.slot = None \/ self.slot = other.slot THEN TRUE
    ELSE FALSE

\* __setattr__ that stores the value: C17 tells it from setattr.
setattr_Stores(objects, i, name, value) ==
    [status |-> "ok", objects |-> [objects EXCEPT ![i][name] = value]]

\* Atom.__setattr__ (lines 355-358): AttributeError, and no object changes.
setattr(objects, i, name, value) ==
    [status |-> "AttributeError", objects |-> objects]

\* ------------------------------------------------------- Atom: the objects
\* at.objects: the Atom objects made so far.  at.made: for each object, the
\* call that made it.  at.uses: how many _use_dep objects were made.
\* at.calls: how many calls were made on the objects.  at.last: the last
\* call, with what it returned.
MaxCalls == 2

\* The texts atoms are parsed from: a blocker, a head, a slot dep, a repo
\* and USE deps.
AtomTexts ==
    {b \o h \o sl \o r \o u :
        b \in {<<>>, <<"!">>},
        h \in {<<"c", "/", "p">>, <<"=", "c", "/", "p", "-", "1">>},
        sl \in {<<>>, <<":", "0">>, <<":", "1", "/", "2", "=">>},
        r \in {<<>>, <<":", ":", "r">>},
        u \in {<<>>, <<"[", "x", "]">>,
               <<"[", "x", "?", ",", "-", "y", "(", "+", ")", "]">>}}

AtInit ==
    /\ at = [objects |-> <<>>, made |-> <<>>, uses |-> 0, calls |-> 0,
             last |-> [op |-> "none"]]
    /\ ur = Idle /\ ru = Idle /\ ud = Idle /\ ml = Idle /\ cc = Idle /\ db = Idle
    /\ heap = <<>> /\ cache = <<>> /\ held = {} /\ first = <<>>

\* The objects after a call on object i returned ret: a new Atom is one more
\* object, an exception and a returned receiver leave the objects alone.
AfterCall(op, i, args, ret) ==
    IF ~ret.fresh
    THEN [at EXCEPT !.last = [op |-> op, self |-> i, args |-> args, status |-> "ok",
                              result |-> i, fresh |-> FALSE]]
    ELSE IF ret.atom.status # "ok"
    THEN [at EXCEPT !.last = [op |-> op, self |-> i, args |-> args,
                              status |-> ret.atom.status, result |-> 0, fresh |-> FALSE]]
    ELSE [at EXCEPT !.objects = Append(@, ret.atom),
                    !.made = Append(@, [op |-> op, self |-> i, args |-> args]),
                    !.uses = @ + 1,
                    !.last = [op |-> op, self |-> i, args |-> args, status |-> "ok",
                              result |-> Len(at.objects) + 1, fresh |-> TRUE]]

\* One more call on the objects.
Counted(a) == [a EXCEPT !.calls = @ + 1]

Called(op, i, args, ret) ==
    /\ at.calls < MaxCalls
    /\ at' = Counted(AfterCall(op, i, args, ret))
    /\ UNCHANGED <<ur, ru, heap, cache, held, first, ud, ml, cc, db>>

\* Atom(text): the atom the calls start from.
AtNew ==
    /\ at.objects = <<>> /\ at.last.op = "none"
    /\ \E text \in AtomTexts :
         at' = AfterCall("Atom", 0, <<text>>,
                         ReturnNew(Atom(text, NoAtom, FALSE, "None", NoUse, NoEapi,
                                        NoValidFlag, at.uses + 1)))
    /\ UNCHANGED <<ur, ru, heap, cache, held, first, ud, ml, cc, db>>

\* setattr(a, name, value)
AtSetAttr ==
    \E i \in 1..Len(at.objects), name \in {"slot", "repo"}, value \in {<<"s">>} :
        LET r == setattr(at.objects, i, name, value)
        IN  /\ at.calls < MaxCalls
            /\ at' = Counted([at EXCEPT !.objects = r.objects,
                                        !.last = [op |-> "__setattr__", self |-> i,
                                                  args |-> <<name, value>>, status |-> r.status,
                                                  result |-> 0, fresh |-> FALSE]])
            /\ UNCHANGED <<ur, ru, heap, cache, held, first, ud, ml, cc, db>>

AtWithoutRepo ==
    \E i \in 1..Len(at.objects) :
        Called("without_repo", i, <<>>, without_repo(at.objects[i], at.uses + 1))

AtWithoutSlot ==
    \E i \in 1..Len(at.objects) :
        Called("without_slot", i, <<>>, without_slot(at.objects[i], at.uses + 1))

AtWithRepo ==
    \E i \in 1..Len(at.objects), repo \in {<<"r">>, <<"s">>} :
        Called("with_repo", i, <<repo>>, with_repo(at.objects[i], repo, at.uses + 1))

AtWithSlot ==
    \E i \in 1..Len(at.objects), slot \in {<<"0">>, <<"s">>} :
        Called("with_slot", i, <<slot>>, with_slot(at.objects[i], slot, at.uses + 1))

AtEvaluate ==
    \E i \in 1..Len(at.objects), use \in SUBSET UseFlags :
        Called("evaluate_conditionals", i, <<use>>,
               evaluate_conditionals(at.objects[i], i, use, at.uses + 1))

AtViolated ==
    \E i \in 1..Len(at.objects), other_use \in {{}, {FlagX}}, valid \in {{}, UseFlags},
       parent_use \in {NoParentUse, ParentUse({FlagX})} :
        Called("violated_conditionals", i, <<other_use, valid, parent_use>>,
               violated_conditionals(at.objects[i], i, other_use, valid, parent_use,
                                     at.uses + 1))

\* a.intersects(b)
AtIntersects ==
    /\ at.calls < MaxCalls
    /\ \E i, j \in 1..Len(at.objects) :
         at' = Counted([at EXCEPT !.last = [op |-> "intersects", self |-> i, args |-> <<j>>,
                                            status |-> "ok", fresh |-> FALSE,
                                            result |-> intersects(at.objects[i], at.objects[j])]])
    /\ UNCHANGED <<ur, ru, heap, cache, held, first, ud, ml, cc, db>>

AtNext ==
    \/ AtNew \/ AtSetAttr \/ AtWithoutRepo \/ AtWithoutSlot \/ AtWithRepo \/ AtWithSlot
    \/ AtEvaluate \/ AtViolated \/ AtIntersects

SpecAtom == AtInit /\ [][AtNext]_vars

\* ------------------------------------------------------- Atom: the claims
\* The flags a USE dep of atom a enables and disables: none without USE deps.
EnabledOf(a) == IF a.use.none THEN {} ELSE a.use.dep.enabled
DisabledOf(a) == IF a.use.none THEN {} ELSE a.use.dep.disabled

\* The last call was evaluate_conditionals on an atom that an earlier
\* evaluate_conditionals with the same USE set returned (the receiver itself
\* or the object it made).
EvaluatedTwice ==
    /\ at.last.op = "evaluate_conditionals"
    /\ at.last.status = "ok"
    /\ at.made[at.last.self].op = "evaluate_conditionals"
    /\ at.made[at.last.self].args = at.last.args

\* C15: evaluate_conditionals is idempotent for a fixed USE set: for an atom
\* that a.evaluate_conditionals(u) made, evaluate_conditionals(u) returns an
\* atom of the same text with the same enabled and disabled flags.
C15_EvaluateIdempotent ==
    EvaluatedTwice =>
        /\ at.objects[at.last.result].text = at.objects[at.last.self].text
        /\ EnabledOf(at.objects[at.last.result]) = EnabledOf(at.objects[at.last.self])
        /\ DisabledOf(at.objects[at.last.result]) = DisabledOf(at.objects[at.last.self])

\* [x?,-y(+)] evaluated twice with x enabled: the first call made an atom
\* with [x,-y(+)], the second was made on that atom.
C15_Witness ==
    /\ EvaluatedTwice
    /\ at.last.args = <<{FlagX}>>
    /\ ~at.objects[at.made[at.last.self].self].use.dep.conditional.none
    /\ EnabledOf(at.objects[at.last.self]) = {FlagX}
    /\ DisabledOf(at.objects[at.last.self]) = {FlagY}

\* The methods that make an atom of an atom.
Transforms ==
    {"evaluate_conditionals", "violated_conditionals", "with_slot", "with_repo",
     "without_slot", "without_repo"}

\* A step keeps every object there was, field for field.
ObjectsKept ==
    /\ Len(at'.objects) >= Len(at.objects)
    /\ \A i \in 1..Len(at.objects) : at'.objects[i] = at.objects[i]

\* A step that assigns to an attribute ends in AttributeError.
SetAttrRefused == at'.last.op = "__setattr__" => at'.last.status = "AttributeError"

\* The step is a call of one of Transforms that returned.
Transformed == at'.last.op \in Transforms /\ at'.last.status = "ok"

\* The method has nothing to change in the receiver: no conditional to
\* evaluate, no USE deps, no slot dep, no repo.
NothingToChange(self, op) ==
    CASE op = "evaluate_conditionals" ->
             self.use.none \/ self.use.dep.tokens = <<>> \/ self.use.dep.conditional.none
      [] op = "violated_conditionals" -> self.use.none \/ self.use.dep.tokens = <<>>
      [] op = "without_slot" -> self.slot = None /\ self.slot_operator = None
      [] op = "without_repo" -> self.repo = None
      [] OTHER -> FALSE

\* C17 as stated: no call changes a field of an object, an attribute
\* assignment raises AttributeError, and every one of the six methods
\* delivers an Atom object of its own.
C17_TransformsReturnNew ==
    [][/\ ObjectsKept
       /\ SetAttrRefused
       /\ Transformed => at'.last.fresh]_vars

\* C17: no call changes a field of an object, an attribute assignment raises
\* AttributeError, and each of the six methods delivers the receiver itself
\* when it has nothing to change in it and a new Atom object otherwise
\* (with_slot and with_repo always).
C17_FieldsNeverChange ==
    [][/\ ObjectsKept
       /\ SetAttrRefused
       /\ Transformed =>
            IF NothingToChange(at.objects[at'.last.self], at'.last.op)
            THEN ~at'.last.fresh /\ at'.last.result = at'.last.self
            ELSE /\ at'.last.fresh
                 /\ at'.last.result = Len(at.objects) + 1
                 /\ Len(at'.objects) = Len(at.objects) + 1]_vars

\* An assignment to the slot of an atom with a slot dep was refused, after
\* without_slot had made a new atom of that atom.
C17_Witness ==
    /\ at.last.op = "__setattr__" /\ at.last.status = "AttributeError"
    /\ at.last.self = 1 /\ at.last.args[1] = "slot"
    /\ Len(at.objects) = 2 /\ at.made[2].op = "without_slot"
    /\ at.objects[1].slot = <<"0">>

\* The last call was without_slot on an atom with no USE deps, and returned.
WithoutSlotOfPlain ==
    /\ at.last.op = "without_slot"
    /\ at.last.status = "ok"
    /\ at.objects[at.last.self].use.none

\* Atom(text), with every argument at its default.
Parse(text) == Atom(text, NoAtom, FALSE, "None", NoUse, NoEapi, NoValidFlag, 0)

\* Atoms are strings and define no __eq__: two are equal when their texts are.
AtomEq(a, b) == a.status = "ok" /\ b.status = "ok" /\ a.text = b.text

\* C18 as stated: for an atom with no USE deps, a.without_slot is equal to
\* the atom parsed from remove_slot(a).
C18_WithoutSlotIsRemoveSlot ==
    WithoutSlotOfPlain =>
        AtomEq(at.objects[at.last.result], Parse(remove_slot(at.objects[at.last.self].text)))

\* C18: for an atom with no USE deps, a.without_slot is equal to the atom
\* parsed from remove_slot(a) followed by "::" and the repo of a, if a has
\* one; it has the blocker, cp, cpv and repo of a and no slot dep.
C18_WithoutSlotKeepsRepo ==
    WithoutSlotOfPlain =>
        /\ AtomEq(at.objects[at.last.result],
                  Parse(remove_slot(at.objects[at.last.self].text)
                            \o RepoText(at.objects[at.last.self])))
        /\ at.objects[at.last.result].slot = None
        /\ at.objects[at.last.result].slot_operator = None
        /\ at.objects[at.last.result].repo = at.objects[at.last.self].repo
        /\ at.objects[at.last.result].cpv = at.objects[at.last.self].cpv
        /\ at.objects[at.last.result].blocker = at.objects[at.last.self].blocker

\* without_slot made a new atom of a blocker with a slot, a sub-slot, a slot
\* operator and a repo.
C18_Witness ==
    /\ WithoutSlotOfPlain
    /\ at.last.fresh
    /\ at.objects[at.last.self].text = <<"!", "c", "/", "p", ":", "1", "/", "2", "=", ":", ":", "r">>
    /\ at.objects[at.last.result].text = <<"!", "c", "/", "p", ":", ":", "r">>

\* The USE deps of two atoms match: both have none, or both carry the same
\* tokens.
UseDepsMatch(a, b) ==
    IF a.use.none \/ b.use.none THEN a.use.none /\ b.use.none
    ELSE a.use.dep.tokens = b.use.dep.tokens

\* C20: a.intersects(b) is true iff a and b are textually equal, or cp,
\* operator, cpv and USE deps all match and the slots are compatible: one of
\* them absent, or both equal.
C20_IntersectsIffPartsMatch ==
    at.last.op = "intersects" =>
        (at.last.result <=>
            \/ at.objects[at.last.self].text = at.objects[at.last.args[1]].text
            \/ /\ at.objects[at.last.self].cp = at.objects[at.last.args[1]].cp
               /\ at.objects[at.last.self].operator = at.objects[at.last.args[1]].operator
               /\ at.objects[at.last.self].cpv = at.objects[at.last.args[1]].cpv
               /\ UseDepsMatch(at.objects[at.last.self], at.objects[at.last.args[1]])
               /\ \/ at.objects[at.last.self].slot = None
                  \/ at.objects[at.last.args[1]].slot = None
                  \/ at.objects[at.last.self].slot = at.objects[at.last.args[1]].slot)

\* C29: evaluate_conditionals changes only the USE deps: the atom it returns
\* has the blocker, operator, cp, cpv, slot, sub_slot, slot_operator and
\* repo of the atom it was called on, and its unevaluated_atom is that atom.
C29_EvaluateKeepsTheRest ==
    (at.last.op = "evaluate_conditionals" /\ at.last.status = "ok") =>
        /\ \A f \in {"blocker", "operator", "cp", "cpv", "slot", "sub_slot",
                     "slot_operator", "repo"} :
             at.objects[at.last.result][f] = at.objects[at.last.self][f]
        /\ IF at.last.fresh
           THEN at.objects[at.last.result].unevaluated_atom
                    = [self |-> FALSE, ref |-> at.last.self]
           ELSE at.objects[at.last.result].unevaluated_atom = Self

\* ------------------------------------------------------- Atom: the EAPI
\* Atom(text, eapi=..., is_valid_flag=...) on texts put together of a
\* blocker, a head, a slot dep, a repo and USE deps, under every choice of
\* what the EAPI allows.  at.parts tells the parts of the text apart,
\* at.result is the object or the exception of the call.
EapiBlockers == {<<>>, <<"!">>, <<"!", "!">>}
EapiHeads == {<<"c", "/", "p">>, <<"=", "c", "/", "p", "-", "1">>}
EapiSlots == {<<>>, <<":", "0">>, <<":", "1", "/", "2", "=">>}
EapiRepos == {<<>>, <<":", ":", "r">>}
EapiUses ==
    {<<>>, <<"[", "x", "]">>, <<"[", "x", "?", "]">>, <<"[", "-", "y", "(", "+", ")", "]">>}

\* What _get_eapi_attrs gives for an EAPI: one flag for each feature.  An
\* EAPI with slot operators has slot deps.
EapiAttrs ==
    {e \in [none : {FALSE}, slot_deps : BOOLEAN, use_deps : BOOLEAN,
            use_dep_defaults : BOOLEAN, strong_blocks : BOOLEAN, repo_deps : BOOLEAN,
            slot_operator : BOOLEAN] : e.slot_operator => e.slot_deps}

ValidFlags == {NoValidFlag, [none |-> FALSE, flags |-> {}], [none |-> FALSE, flags |-> UseFlags]}

AeInit ==
    /\ \E b \in EapiBlockers, h \in EapiHeads, sl \in EapiSlots, r \in EapiRepos,
          u \in EapiUses, eapi \in EapiAttrs \cup {NoEapi}, is_valid_flag \in ValidFlags :
         at = [status |-> "new",
               parts |-> [blocker |-> b, head |-> h, slot |-> sl, repo |-> r, use |-> u],
               eapi |-> eapi, is_valid_flag |-> is_valid_flag]
    /\ ur = Idle /\ ru = Idle /\ ud = Idle /\ ml = Idle /\ cc = Idle /\ db = Idle
    /\ heap = <<>> /\ cache = <<>> /\ held = {} /\ first = <<>>

PartsText(parts) == parts.blocker \o parts.head \o parts.slot \o parts.repo \o parts.use

\* Atom(text, eapi=eapi, is_valid_flag=is_valid_flag)
AeParse ==
    /\ at.status = "new"
    /\ at' = [status |-> "parsed", parts |-> at.parts, eapi |-> at.eapi,
              is_valid_flag |-> at.is_valid_flag,
              result |-> Atom(PartsText(at.parts), NoAtom, FALSE, "None", NoUse, at.eapi,
                              at.is_valid_flag, 1)]
    /\ UNCHANGED <<ur, ru, heap, cache, held, first, ud, ml, cc, db>>

AeNext == AeParse

SpecAtomEapi == AeInit /\ [][AeNext]_vars

\* The gated features the text uses that the EAPI does not allow.
Disallowed(parts, eapi) ==
    {f \in {"slot_deps", "use_deps", "use_dep_defaults", "strong_blocks", "repo_deps"} :
        /\ ~eapi.none
        /\ ~eapi[f]
        /\ CASE f = "slot_deps" -> parts.slot # <<>>
             [] f = "use_deps" -> parts.use # <<>>
             [] f = "use_dep_defaults" -> \E i \in 1..Len(parts.use) : parts.use[i] = "("
             [] f = "strong_blocks" -> parts.blocker = <<"!", "!">>
             [] f = "repo_deps" -> parts.repo # <<>>}

\* The slot dep of the text is one the grammar of the EAPI has: a slot
\* operator or a sub-slot needs an EAPI with slot operators.
SlotInGrammar(parts, eapi) ==
    eapi.slot_operator \/ \A i \in 1..Len(parts.slot) : parts.slot[i] \notin {"/", "=", "*"}

\* The call ended in InvalidAtom with category EAPI.incompatible.
Incompatible(result) == result.status = "InvalidAtom" /\ result.category = "EAPI.incompatible"

\* C19 as stated: a text that uses a feature the EAPI does not allow is
\* refused with InvalidAtom of category EAPI.incompatible, for each of the
\* five features; a text that uses only what the EAPI allows is not refused
\* by any of the gates.
C19_AllGatesIncompatible ==
    (at.status = "parsed" /\ SlotInGrammar(at.parts, at.eapi)) =>
        IF Disallowed(at.parts, at.eapi) # {}
        THEN Incompatible(at.result)
        ELSE at.result.status = "ok" \/ at.result.category = "IUSE.missing"

\* The flags of the conditionals of the USE deps of the text that
\* is_valid_flag does not know: none when no EAPI or no is_valid_flag is given.
UnknownConditionalFlags(parts, eapi, is_valid_flag) ==
    {f \in UseFlags :
        /\ ~eapi.none /\ ~is_valid_flag.none
        /\ f \notin is_valid_flag.flags
        /\ \E i \in 1..Len(parts.use) :
             /\ parts.use[i] \in {"?", "="}
             /\ SubSeq(parts.use, i - Len(f), i - 1) = f}

\* C19: a text whose slot dep is in the grammar of the EAPI and that uses a
\* feature the EAPI does not allow is refused with InvalidAtom: without a
\* category when it is the repo that is not allowed; else with category
\* EAPI.incompatible when it is slot deps, USE deps or USE-dep defaults;
\* else, when it is strong blocks only, with category EAPI.incompatible
\* unless is_valid_flag does not know a flag of a USE conditional, which is
\* reported first, as IUSE.missing.  A text that uses only what the EAPI
\* allows is not refused by any of the gates.
C19_GatesButRepoIncompatible ==
    (at.status = "parsed" /\ SlotInGrammar(at.parts, at.eapi)) =>
        IF "repo_deps" \in Disallowed(at.parts, at.eapi)
        THEN at.result.status = "InvalidAtom" /\ at.result.category = "None"
        ELSE IF Disallowed(at.parts, at.eapi) \ {"strong_blocks"} # {}
        THEN Incompatible(at.result)
        ELSE IF UnknownConditionalFlags(at.parts, at.eapi, at.is_valid_flag) # {}
        THEN at.result.status = "InvalidAtom" /\ at.result.category = "IUSE.missing"
        ELSE IF Disallowed(at.parts, at.eapi) # {}
        THEN Incompatible(at.result)
        ELSE at.result.status = "ok"

\* A strong block with nothing else that is gated was refused by an EAPI
\* that allows everything but strong blocks.
C19_Witness ==
    /\ at.status = "parsed"
    /\ at.parts = [blocker |-> <<"!", "!">>, head |-> <<"c", "/", "p">>, slot |-> <<":", "0">>,
                   repo |-> <<":", ":", "r">>, use |-> <<"[", "-", "y", "(", "+", ")", "]">>]
    /\ Disallowed(at.parts, at.eapi) = {"strong_blocks"}
    /\ ~at.is_valid_flag.none
    /\ Incompatible(at.result)

\* ========================================================= match_from_list
\* vercmp of portage.versions on the versions of the model, by the place of
\* a version in their order: 0 < 1 = 01 < 1a < 1.2 < 2 < 10.
VersionPlace(v) ==
    CASE v = <<"0">> -> 0
      [] v \in {<<"1">>, <<"0", "1">>} -> 1
      [] v = <<"1", "a">> -> 2
      [] v = <<"1", ".", "2">> -> 3
      [] v = <<"2">> -> 4
      [] v = <<"1", "0">> -> 5

vercmp(ver1, ver2) ==
    IF VersionPlace(ver1) < VersionPlace(ver2) THEN -1
    ELSE IF VersionPlace(ver1) = VersionPlace(ver2) THEN 0 ELSE 1

\* A candidate: a package with the attributes match_from_list reads.  use is
\* the USE data it exposes, if any: the enabled flags and the flags its
\* IUSE knows.  No version of the model has a revision.
Package(cp, version, slot, sub_slot, repo, use) ==
    [cp |-> cp, version |-> version, cpv |-> cp \o <<"-">> \o version, slot |-> slot,
     sub_slot |-> sub_slot, repo |-> repo, use |-> use]

NoUseData == [none |-> TRUE, enabled |-> {}, valid |-> {}]
UseData(enabled, valid) == [none |-> FALSE, enabled |-> enabled, valid |-> valid]

\* cpvequal (lines 227-266) for a candidate and the cpv of an atom.
cpvequal(x, cp, version) == x.cp = cp /\ vercmp(x.version, version) = 0

\* The pattern extended_cp_match makes of extended_cp, matched against
\* other_cp (lines 1454-1467): "*" stands for any characters but "/".
RECURSIVE extended_cp_match(_, _)
extended_cp_match(extended_cp, other_cp) ==
    IF extended_cp = <<>> THEN other_cp = <<>>
    ELSE IF extended_cp[1] = "*"
    THEN \/ extended_cp_match(Tail1(extended_cp), other_cp)
         \/ /\ other_cp # <<>> /\ other_cp[1] # "/"
            /\ extended_cp_match(extended_cp, Tail1(other_cp))
    ELSE /\ other_cp # <<>> /\ other_cp[1] = extended_cp[1]
         /\ extended_cp_match(Tail1(extended_cp), Tail1(other_cp))

\* ver in x_ver
Contains(t, part) == \E i \in 1..(Len(t) - Len(part) + 1) : SubSeq(t, i, i + Len(part) - 1) = part

\* An atom with extended syntax (lines 1942-1972)
ExtendedMatches(mydep, x) ==
    /\ x.cp = mydep.cpv \/ extended_cp_match(mydep.cp, x.cp)
    /\ mydep.operator = <<"=", "*">> =>
           Contains(x.version, SubSeq(mydep.version, 2, Len(mydep.version) - 1))

\* s.lstrip("0")
RECURSIVE LstripZeros(_)
LstripZeros(v) == IF v # <<>> /\ v[1] = "0" THEN LstripZeros(Tail1(v)) ELSE v

DigitChars == {"0", "1", "2", "3", "4", "5", "6", "7", "8", "9"}

\* The version with its leading zeros taken off, "0" put in front of what
\* is left if that is empty or does not start with a digit (lines 2004-2006,
\* 2028-2030).
GlobVersion(v) ==
    IF LstripZeros(v) = <<>> \/ LstripZeros(v)[1] \notin DigitChars
    THEN <<"0">> \o LstripZeros(v) ELSE LstripZeros(v)

\* The glob match without the test of the character after the prefix: C22
\* tells it from GlobMatches.
GlobMatches_AnyPrefix(mycpv_cmp, xcpv) == StartsWith(xcpv, mycpv_cmp)

\* xcpv.startswith(mycpv_cmp) on a boundary between version parts (lines
\* 2036-2045)
GlobMatches(mycpv_cmp, xcpv) ==
    /\ StartsWith(xcpv, mycpv_cmp)
    /\ \/ Len(xcpv) = Len(mycpv_cmp)
       \/ xcpv[Len(mycpv_cmp) + 1] \in {".", "_", "-"}
       \/ (Last(mycpv_cmp) \in DigitChars) # (xcpv[Len(mycpv_cmp) + 1] \in DigitChars)

\* The comparison of a relational operator without equality for ">=" and
\* "<=": C23 tells it from Compares.
Compares_Strict(operator, result) ==
    IF operator \in {<<">">>, <<">", "=">>} THEN result > 0 ELSE result < 0

\* The test of vercmp's result for the operator (lines 2083-2095)
Compares(operator, result) ==
    CASE operator = <<">">> -> result > 0
      [] operator = <<">", "=">> -> result >= 0
      [] operator = <<"<">> -> result < 0
      [] operator = <<"<", "=">> -> result <= 0

\* The first filter (lines 1940-2097): by extended syntax, or by the cp, or
\* by the operator and the version.
OperatorMatches(mydep, x) ==
    IF mydep.extended_syntax THEN ExtendedMatches(mydep, x)
    ELSE IF mydep.version = None THEN x.cp = mydep.cp
    ELSE IF mydep.operator = <<"=">> THEN cpvequal(x, mydep.cp, mydep.version)
    ELSE IF mydep.operator = <<"=", "*">>
    THEN GlobMatches(mydep.cp \o <<"-">> \o GlobVersion(mydep.version),
                     x.cp \o <<"-">> \o GlobVersion(x.version))
    ELSE IF mydep.operator = <<"~">>
    THEN cpvequal(x, mydep.cp, mydep.version) /\ x.version = mydep.version
    ELSE x.cp = mydep.cp /\ Compares(mydep.operator, vercmp(x.version, mydep.version))

\* _match_slot (lines 103-109); atom.sub_slot is None or a slot name.
match_slot(atom, pkg) ==
    pkg.slot = atom.slot /\ (atom.sub_slot = None \/ atom.sub_slot = pkg.sub_slot)

\* The USE filter that ignores the defaults of the atom: C21 tells it from
\* UseMatches.
UseMatches_NoDefaults(use, required, x) ==
    \/ x.use.none
    \/ /\ required \subseteq x.use.valid
       /\ (~use.none /\ use.dep.tokens # <<>>) =>
            /\ use.dep.enabled \subseteq x.use.enabled
            /\ use.dep.disabled \cap x.use.enabled = {}

\* The USE filter for one candidate (lines 2127-2167): use is mydep.use and
\* required is mydep.unevaluated_atom.use.required; x.iuse.is_valid_flag
\* holds of the flags in x.use.valid.
UseMatches(use, required, x) ==
    \/ x.use.none
    \/ /\ required \subseteq x.use.valid
       /\ (~use.none /\ use.dep.tokens # <<>>) =>
            /\ use.dep.enabled # {} =>
                 /\ ~\E f \in use.dep.missing_disabled \ x.use.valid : f \in use.dep.enabled
                 /\ \A f \in use.dep.enabled \ x.use.enabled :
                        f \in use.dep.missing_enabled \ x.use.valid
            /\ use.dep.disabled # {} =>
                 /\ ~\E f \in use.dep.missing_enabled \ x.use.valid : f \in use.dep.disabled
                 /\ \A f \in use.dep.disabled \cap x.use.enabled :
                        f \in use.dep.missing_disabled \ x.use.valid

\* The repo filter for one candidate (lines 2169-2178); no candidate of the
\* model has the unknown repo.
RepoMatches(mydep, x) == x.repo = None \/ x.repo = mydep.repo

\* The filters, each over what the one before left.
OperatorFilter(mydep, candidate_list) ==
    LET Kept(x) == OperatorMatches(mydep, x) IN SelectSeq(candidate_list, Kept)

SlotFilter(mydep, mylist) ==
    IF mydep.slot # None
    THEN LET Kept(x) == match_slot(mydep, x) IN SelectSeq(mylist, Kept)
    ELSE mylist

UseFilter(mydep, unevaluated_use, mylist) ==
    IF ~unevaluated_use.none /\ unevaluated_use.dep.tokens # <<>>
    THEN LET Kept(x) == UseMatches(mydep.use, unevaluated_use.dep.required, x)
         IN  SelectSeq(mylist, Kept)
    ELSE mylist

RepoFilter(mydep, mylist) ==
    IF mydep.repo # None
    THEN LET Kept(x) == RepoMatches(mydep, x) IN SelectSeq(mylist, Kept)
    ELSE mylist

\* mydep without its blocker (lines 1911-1917): the text after the "!"s,
\* parsed again.
Unblocked(mydep) ==
    IF mydep.blocker.is
    THEN Atom(From(mydep.text, IF mydep.blocker.forbid THEN 3 ELSE 2), NoAtom, TRUE, "True",
              NoUse, NoEapi, NoValidFlag, 0)
    ELSE mydep

\* match_from_list(mydep, candidate_list) (lines 1890-2180), where
\* unevaluated_use is mydep.unevaluated_atom.use.  Every atom with a version
\* has an operator, so the KeyError and the "Invalid atom" return of lines
\* 1929-1938 are not reached.
Filters(mydep, unevaluated_use, candidate_list) ==
    RepoFilter(mydep,
        UseFilter(mydep, unevaluated_use,
            SlotFilter(mydep, OperatorFilter(mydep, candidate_list))))

match_from_list(mydep, unevaluated_use, candidate_list) ==
    IF candidate_list = <<>> THEN <<>>
    ELSE IF mydep.blocker.is
    THEN Filters(Unblocked(mydep), Unblocked(mydep).use, candidate_list)
    ELSE Filters(mydep, unevaluated_use, candidate_list)

\* ------------------------------------------------- match_from_list: inputs
MaxCandidates == 2

MlCp == <<"c", "/", "p">>
MlFlags == {<<"x">>, <<"y">>}

\* The candidates: c/p in every version, c/q, c/p-1 in slot 2/1, c/p-1 of
\* repo r, and c/p-1 with every USE data over the flags x and y.
MlPackages ==
    {Package(MlCp, v, <<"0">>, <<"0">>, None, NoUseData) : v \in Versions}
    \cup {Package(<<"c", "/", "q">>, <<"1">>, <<"0">>, <<"0">>, None, NoUseData),
          Package(MlCp, <<"1">>, <<"2">>, <<"1">>, None, NoUseData),
          Package(MlCp, <<"1">>, <<"0">>, <<"0">>, <<"r">>, NoUseData)}
    \cup {Package(MlCp, <<"1">>, <<"0">>, <<"0">>, None, UseData(e, v)) :
              e \in SUBSET MlFlags, v \in SUBSET MlFlags}

MlLists == UNION {[1..n -> MlPackages] : n \in 0..MaxCandidates}

MlOperators == {<<"=">>, <<"~">>, <<">">>, <<">", "=">>, <<"<">>, <<"<", "=">>}

MlUseTokens(flag) ==
    {pre \o flag \o d : pre \in {<<>>, <<"-">>},
                        d \in {<<>>, <<"(", "+", ")">>, <<"(", "-", ")">>}}
    \cup {flag \o <<"?">>}

\* The texts of the atoms: c/p with an operator and a version, with a glob,
\* with a slot, with a repo, with USE deps, with a blocker, and with
\* wildcards.
MlTexts ==
    {MlCp}
    \cup {op \o MlCp \o <<"-">> \o v : op \in MlOperators, v \in Versions}
    \cup {<<"=">> \o MlCp \o <<"-">> \o v \o <<"*">> : v \in Versions}
    \cup {MlCp \o sl : sl \in {<<":", "0">>, <<":", "2">>, <<":", "2", "/", "1">>,
                               <<":", "2", "/", "2">>, <<":", ":", "r">>}}
    \cup {MlCp \o <<"[">> \o t \o <<"]">> : t \in MlUseTokens(<<"x">>) \cup MlUseTokens(<<"y">>)}
    \cup {MlCp \o <<"[">> \o t \o <<",">> \o u \o <<"]">> :
              t \in MlUseTokens(<<"x">>), u \in MlUseTokens(<<"y">>)}
    \cup {<<"!">> \o MlCp, <<"!", "!", "=">> \o MlCp \o <<"-", "1">>}
    \cup {<<"*", "/", "*">>, <<"c", "/", "*">>, <<"=">> \o MlCp \o <<"-", "*", "1", "*">>}

\* Atom(text, allow_wildcard=True, allow_repo=True)
MlAtom(text) == Atom(text, NoAtom, TRUE, "True", NoUse, NoEapi, NoValidFlag, 1)

MlInit ==
    /\ \E text \in MlTexts : ml = [status |-> "new", text |-> text]
    /\ ur = Idle /\ ru = Idle /\ ud = Idle /\ at = Idle /\ cc = Idle /\ db = Idle
    /\ heap = <<>> /\ cache = <<>> /\ held = {} /\ first = <<>>

\* mydep = Atom(text, allow_wildcard=True, allow_repo=True)
MlParse ==
    /\ ml.status = "new"
    /\ ml' = [status |-> "parsed", mydep |-> MlAtom(ml.text)]
    /\ UNCHANGED <<ur, ru, heap, cache, held, first, ud, at, cc, db>>

\* match_from_list(mydep, candidate_list)
MlMatch ==
    /\ ml.status = "parsed"
    /\ ml.mydep.status = "ok"
    /\ \E candidate_list \in MlLists :
         ml' = [status |-> "matched", mydep |-> ml.mydep, candidate_list |-> candidate_list,
                result |-> match_from_list(ml.mydep, ml.mydep.use, candidate_list)]
    /\ UNCHANGED <<ur, ru, heap, cache, held, first, ud, at, cc, db>>

MlNext == MlParse \/ MlMatch

SpecMatch == MlInit /\ [][MlNext]_vars

\* Every text of MlTexts is an atom.
MlAtomsParse == ml.status = "parsed" => ml.mydep.status = "ok"

\* ------------------------------------------------- match_from_list: claims
\* x is one of the packages of the list.
Listed(x, list) == \E i \in 1..Len(list) : list[i] = x

\* The rule of the USE filter for a candidate with the USE data u: every
\* "flag" dep is recognized and enabled, or unrecognized with the default
\* (+); every "-flag" dep is recognized and not enabled, or unrecognized with
\* the default (-); no dep without a default is on an unrecognized flag.
UseRule(dep, u) ==
    /\ \A f \in dep.enabled :
         \/ f \in u.valid /\ f \in u.enabled
         \/ f \notin u.valid /\ f \in dep.missing_enabled
    /\ \A f \in dep.disabled :
         \/ f \in u.valid /\ f \notin u.enabled
         \/ f \notin u.valid /\ f \in dep.missing_disabled
    /\ \A f \in dep.required : f \in u.valid

\* C21: of the candidates that expose USE data and pass the other filters,
\* match_from_list keeps exactly those that satisfy the rule of the USE
\* filter: "flag" recognized and enabled or unrecognized with (+), "-flag"
\* recognized and not enabled or unrecognized with (-), and no dep without
\* default on an unrecognized flag.
C21_UseFilterRule ==
    (ml.status = "matched" /\ ~ml.mydep.use.none) =>
        \A i \in 1..Len(ml.candidate_list) :
            (/\ ~ml.candidate_list[i].use.none
             /\ Listed(ml.candidate_list[i],
                       match_from_list(ml.mydep.without_use.atom, NoUse, ml.candidate_list)))
            => (Listed(ml.candidate_list[i], ml.result)
                    <=> UseRule(ml.mydep.use.dep, ml.candidate_list[i].use))

\* c/p[x,-y] against a candidate with enabled {x} and one with enabled
\* {x, y}, both with the valid flags {x, y}: only the first is kept.
C21_Witness ==
    /\ ml.status = "matched"
    /\ ml.mydep.text = MlCp \o <<"[", "x", ",", "-", "y", "]">>
    /\ ml.candidate_list =
           <<Package(MlCp, <<"1">>, <<"0">>, <<"0">>, None, UseData({<<"x">>}, MlFlags)),
             Package(MlCp, <<"1">>, <<"0">>, <<"0">>, None, UseData(MlFlags, MlFlags))>>
    /\ ml.result = <<ml.candidate_list[1]>>

\* The version without its leading zeros: the zeros in front of another
\* digit.
RECURSIVE StripLeadingZeros(_)
StripLeadingZeros(v) ==
    IF Len(v) > 1 /\ v[1] = "0" /\ v[2] \in DigitChars THEN StripLeadingZeros(Tail1(v)) ELSE v

\* The text of cp-version with the leading zeros of the version stripped.
StrippedCpv(cp, version) == cp \o <<"-">> \o StripLeadingZeros(version)

\* The boundary rule of the glob: the candidate's text c starts with the
\* atom's text a, and the character after a is absent, is one of . _ -, or
\* differs in digit-ness from the last character of a.
GlobRule(a, c) ==
    /\ Len(c) >= Len(a) /\ \A i \in 1..Len(a) : c[i] = a[i]
    /\ \/ Len(c) = Len(a)
       \/ c[Len(a) + 1] \in {".", "_", "-"}
       \/ (a[Len(a)] \in DigitChars) # (c[Len(a) + 1] \in DigitChars)

\* C22: for an atom =cp-V*, match_from_list keeps a candidate iff, with the
\* leading zeros of both versions stripped, the candidate's cpv starts with
\* the atom's cpv and the match ends on a boundary between version parts.
C22_GlobBoundary ==
    (/\ ml.status = "matched" /\ ~ml.mydep.extended_syntax
     /\ ml.mydep.operator = <<"=", "*">>) =>
        \A i \in 1..Len(ml.candidate_list) :
            Listed(ml.candidate_list[i], ml.result)
                <=> GlobRule(StrippedCpv(ml.mydep.cp, ml.mydep.version),
                             StrippedCpv(ml.candidate_list[i].cp, ml.candidate_list[i].version))

\* =c/p-1* against [c/p-10, c/p-1.2] returns only c/p-1.2.
C22_Witness ==
    /\ ml.status = "matched"
    /\ ml.mydep.text = <<"=">> \o MlCp \o <<"-", "1", "*">>
    /\ ml.candidate_list =
           <<Package(MlCp, <<"1", "0">>, <<"0">>, <<"0">>, None, NoUseData),
             Package(MlCp, <<"1", ".", "2">>, <<"0">>, <<"0">>, None, NoUseData)>>
    /\ ml.result = <<ml.candidate_list[2]>>

\* sub is list with some of its members left out.
RECURSIVE Subsequence(_, _)
Subsequence(sub, list) ==
    IF sub = <<>> THEN TRUE
    ELSE IF list = <<>> THEN FALSE
    ELSE IF sub[1] = list[1] THEN Subsequence(Tail1(sub), Tail1(list))
    ELSE Subsequence(sub, Tail1(list))

\* match_from_list(Atom(operator + cpv), candidate_list)
MatchOf(operator, cpv, candidate_list) ==
    match_from_list(MlAtom(operator \o cpv), NoUse, candidate_list)

\* C23: the result for >=cp-v holds every candidate of the result for >cp-v
\* and of the result for =cp-v over the same list, and each of the three
\* results is a subsequence of the list.
C23_GreaterEqualCoversBoth ==
    (/\ ml.status = "matched" /\ ~ml.mydep.extended_syntax
     /\ ml.mydep.operator = <<">", "=">>) =>
        /\ \A i \in 1..Len(ml.candidate_list) :
             (\/ Listed(ml.candidate_list[i], MatchOf(<<">">>, ml.mydep.cpv, ml.candidate_list))
              \/ Listed(ml.candidate_list[i], MatchOf(<<"=">>, ml.mydep.cpv, ml.candidate_list)))
             => Listed(ml.candidate_list[i], ml.result)
        /\ Subsequence(ml.result, ml.candidate_list)
        /\ Subsequence(MatchOf(<<">">>, ml.mydep.cpv, ml.candidate_list), ml.candidate_list)
        /\ Subsequence(MatchOf(<<"=">>, ml.mydep.cpv, ml.candidate_list), ml.candidate_list)

\* >=c/p-1 against [c/p-2, c/p-01] returns both: the first is in the result
\* for >c/p-1, the second in the result for =c/p-1.
C23_Witness ==
    /\ ml.status = "matched"
    /\ ml.mydep.text = <<">", "=">> \o MlCp \o <<"-", "1">>
    /\ ml.candidate_list =
           <<Package(MlCp, <<"2">>, <<"0">>, <<"0">>, None, NoUseData),
             Package(MlCp, <<"0", "1">>, <<"0">>, <<"0">>, None, NoUseData)>>
    /\ ml.result = ml.candidate_list
    /\ MatchOf(<<">">>, ml.mydep.cpv, ml.candidate_list) = <<ml.candidate_list[1]>>
    /\ MatchOf(<<"=">>, ml.mydep.cpv, ml.candidate_list) = <<ml.candidate_list[2]>>

\* ====================================================== best_match_to_list
MaxAtoms == 3

\* operator_values (lines 1824-1833)
operator_values(operator) ==
    CASE operator = <<"=">> -> 6
      [] operator = <<"~">> -> 5
      [] operator = <<"=", "*">> -> 4
      [] operator \in {<<">">>, <<"<">>, <<">", "=">>, <<"<", "=">>} -> 2
      [] operator = None -> 1

\* list.sort with cmp_cpv, which compares the versions with vercmp (lines
\* 1873-1879): the sort is stable.  The members are tagged with the object
\* they are, since the code tells them apart with "is".
RECURSIVE Inserted(_, _)
Inserted(sorted, e) ==
    IF sorted = <<>> THEN <<e>>
    ELSE IF vercmp(e.version, Last(sorted).version) < 0
    THEN Append(Inserted(SubSeq(sorted, 1, Len(sorted) - 1), e), Last(sorted))
    ELSE Append(sorted, e)

RECURSIVE Sorted(_)
Sorted(list) ==
    IF list = <<>> THEN <<>>
    ELSE Inserted(Sorted(SubSeq(list, 1, Len(list) - 1)), Last(list))

cpv_list(bestm, mypkg, x) ==
    Sorted(<<[is |-> "bestm", version |-> bestm.version],
             [is |-> "mypkg", version |-> mypkg.version],
             [is |-> "x", version |-> x.version]>>)

\* The choice between two relational atoms (lines 1860-1885)
Closest(bestm, mypkg, x) ==
    IF bestm.cpv = mypkg.cpv \/ bestm.cpv = x.cpv THEN bestm
    ELSE IF x.cpv = mypkg.cpv THEN x
    ELSE IF cpv_list(bestm, mypkg, x)[1].is = "mypkg" \/ cpv_list(bestm, mypkg, x)[3].is = "mypkg"
    THEN (IF cpv_list(bestm, mypkg, x)[2].is = "x" THEN x ELSE bestm)
    ELSE bestm

NoBest == [none |-> TRUE]
Best(x) == [none |-> FALSE, atom |-> x]

\* The loop body for an atom with extended syntax (lines 1838-1851)
ExtendedBody(acc, x) ==
    IF x.operator = <<"=", "*">>
    THEN (IF acc.maxvalue < 0 THEN [maxvalue |-> 0, bestm |-> Best(x)] ELSE acc)
    ELSE IF x.slot # None
    THEN (IF acc.maxvalue < -1 THEN [maxvalue |-> -1, bestm |-> Best(x)] ELSE acc)
    ELSE (IF acc.maxvalue < -2 THEN [maxvalue |-> -2, bestm |-> Best(x)] ELSE acc)

\* The loop body without the step that lifts an atom with a slot to 3: C24
\* tells it from SlotBody.
SlotBody_NoLift(acc, x) == acc

\* if dep_getslot(x) is not None (lines 1852-1855)
SlotBody(acc, x) ==
    IF x.slot # None /\ acc.maxvalue < 3 THEN [maxvalue |-> 3, bestm |-> Best(x)] ELSE acc

\* The test of op_val (lines 1856-1885)
OperatorBody(acc, mypkg, x) ==
    IF operator_values(x.operator) > acc.maxvalue
    THEN [maxvalue |-> operator_values(x.operator), bestm |-> Best(x)]
    ELSE IF operator_values(x.operator) = acc.maxvalue /\ operator_values(x.operator) = 2
    THEN [maxvalue |-> acc.maxvalue, bestm |-> Best(Closest(acc.bestm.atom, mypkg, x))]
    ELSE acc

\* One turn of the loop of best_match_to_list (lines 1837-1885)
BestBody(acc, mypkg, x) ==
    IF x.extended_syntax THEN ExtendedBody(acc, x)
    ELSE OperatorBody(SlotBody(acc, x), mypkg, x)

\* The packages and the texts of the atoms given to best_match_to_list.
BmPackages ==
    {Package(MlCp, <<"1">>, <<"2">>, <<"2">>, None, NoUseData),
     Package(MlCp, <<"1", ".", "2">>, <<"0">>, <<"0">>, None, NoUseData),
     Package(MlCp, <<"2">>, <<"0">>, <<"0">>, None, NoUseData)}

BmTexts ==
    {MlCp, MlCp \o <<":", "2">>,
     <<"=">> \o MlCp \o <<"-", "1">>, <<"~">> \o MlCp \o <<"-", "1">>,
     <<"=">> \o MlCp \o <<"-", "1", "*">>,
     <<">">> \o MlCp \o <<"-", "0">>, <<">", "=">> \o MlCp \o <<"-", "0", "1">>,
     <<">", "=">> \o MlCp \o <<"-", "1">>, <<">">> \o MlCp \o <<"-", "1", "a">>,
     <<"<">> \o MlCp \o <<"-", "2">>, <<"<", "=">> \o MlCp \o <<"-", "1", "0">>,
     <<"<", "=">> \o MlCp \o <<"-", "1", ".", "2">>,
     <<">">> \o MlCp \o <<"-", "0", ":", "2">>,
     <<"*", "/", "*">>, <<"c", "/", "*", ":", "2">>,
     <<"=">> \o MlCp \o <<"-", "*", "1", "*">>}

\* best_match_to_list(mypkg, mylist) starts: nothing of mylist is read yet.
BmInit ==
    /\ \E mypkg \in BmPackages :
         ml = [status |-> "loop", mypkg |-> mypkg, mylist |-> <<>>, matches |-> <<>>,
               maxvalue |-> -99, bestm |-> NoBest]
    /\ ur = Idle /\ ru = Idle /\ ud = Idle /\ at = Idle /\ cc = Idle /\ db = Idle
    /\ heap = <<>> /\ cache = <<>> /\ held = {} /\ first = <<>>

\* The atoms of a list are equal when their texts are (Atom is a str).
Seen(text, mylist) == \E i \in 1..Len(mylist) : mylist[i] = text

\* The next atom x of mylist that match_to_list lets through (lines
\* 1789-1797), and the turn of the loop for it.
BmMatched(text, x) ==
    /\ ~Seen(text, ml.mylist)
    /\ match_from_list(x, x.use, <<ml.mypkg>>) # <<>>
    /\ ml' = [status |-> "loop", mypkg |-> ml.mypkg, mylist |-> Append(ml.mylist, text),
              matches |-> Append(ml.matches, x),
              maxvalue |-> BestBody([maxvalue |-> ml.maxvalue, bestm |-> ml.bestm],
                                    ml.mypkg, x).maxvalue,
              bestm |-> BestBody([maxvalue |-> ml.maxvalue, bestm |-> ml.bestm],
                                 ml.mypkg, x).bestm]

\* The next atom of mylist that match_to_list leaves out: one seen before
\* or one that does not match mypkg.
BmSkipped(text, x) ==
    /\ Seen(text, ml.mylist) \/ match_from_list(x, x.use, <<ml.mypkg>>) = <<>>
    /\ ml' = [ml EXCEPT !.mylist = Append(@, text)]

BmStep ==
    /\ ml.status = "loop" /\ Len(ml.mylist) < MaxAtoms
    /\ \E text \in BmTexts : BmMatched(text, MlAtom(text)) \/ BmSkipped(text, MlAtom(text))
    /\ UNCHANGED <<ur, ru, heap, cache, held, first, ud, at, cc, db>>

\* return bestm (line 1887)
BmReturn ==
    /\ ml.status = "loop"
    /\ ml' = [ml EXCEPT !.status = "returned"]
    /\ UNCHANGED <<ur, ru, heap, cache, held, first, ud, at, cc, db>>

BmNext == BmStep \/ BmReturn

SpecBestMatch == BmInit /\ [][BmNext]_vars

\* ---------------------------------------------- best_match_to_list: claims
Relational == {<<">">>, <<"<">>, <<">", "=">>, <<"<", "=">>}

\* The specificity of an atom by its operator alone: = 6, ~ 5, =* 4, a
\* relational operator 2; without operator 3 with a slot and 1 without;
\* below them every wildcard atom.
RankByOperator(x) ==
    IF x.extended_syntax THEN 0
    ELSE IF x.operator = <<"=">> THEN 6
    ELSE IF x.operator = <<"~">> THEN 5
    ELSE IF x.operator = <<"=", "*">> THEN 4
    ELSE IF x.operator \in Relational THEN 2
    ELSE IF x.slot # None THEN 3 ELSE 1

\* The specificity where a slot lifts an atom with an operator to 3 as well.
RankWithSlot(x) ==
    IF ~x.extended_syntax /\ x.slot # None /\ RankByOperator(x) < 3 THEN 3
    ELSE RankByOperator(x)

\* C24 as stated: best_match_to_list returns None iff no atom matches, and
\* otherwise a matching atom of the greatest rank, the rank being that of
\* the operator, 3 for a plain atom with a slot.
C24_BestHasMaxRank ==
    ml.status = "returned" =>
        /\ ml.bestm.none <=> ml.matches = <<>>
        /\ ~ml.bestm.none =>
             /\ Listed(ml.bestm.atom, ml.matches)
             /\ \A i \in 1..Len(ml.matches) :
                    RankByOperator(ml.matches[i]) <= RankByOperator(ml.bestm.atom)

\* C24: best_match_to_list returns None iff no atom matches, and otherwise
\* a matching atom of the greatest rank, where every atom with a slot and
\* without wildcards ranks at least 3, a relational one too.
C24_BestHasMaxRankWithSlot ==
    ml.status = "returned" =>
        /\ ml.bestm.none <=> ml.matches = <<>>
        /\ ~ml.bestm.none =>
             /\ Listed(ml.bestm.atom, ml.matches)
             /\ \A i \in 1..Len(ml.matches) :
                    RankWithSlot(ml.matches[i]) <= RankWithSlot(ml.bestm.atom)

\* c/p:2, c/p and =c/p-1 for c/p-1 in slot 2: =c/p-1 is returned.
C24_Witness ==
    /\ ml.status = "returned"
    /\ ml.mypkg = Package(MlCp, <<"1">>, <<"2">>, <<"2">>, None, NoUseData)
    /\ ml.mylist = <<MlCp \o <<":", "2">>, MlCp, <<"=">> \o MlCp \o <<"-", "1">>>>
    /\ Len(ml.matches) = 3
    /\ ~ml.bestm.none /\ ml.bestm.atom.text = <<"=">> \o MlCp \o <<"-", "1">>

\* The atom is one of rank 2: a relational operator, no slot, no wildcard.
RankTwo(x) == ~x.extended_syntax /\ x.slot = None /\ x.operator \in Relational

\* How far the version is from the package's in the version order.
Distance(version, mypkg) ==
    IF VersionPlace(version) >= VersionPlace(mypkg.version)
    THEN VersionPlace(version) - VersionPlace(mypkg.version)
    ELSE VersionPlace(mypkg.version) - VersionPlace(version)

\* The turn of the loop that chooses between two atoms of rank 2, for three
\* versions that differ: with the package's version at an end the atom with
\* the version next to it is the best afterwards, with the package's version
\* between the two the best stays.
TieBreakStep ==
    (/\ ml.status = "loop" /\ ml'.status = "loop"
     /\ Len(ml'.matches) = Len(ml.matches) + 1
     /\ ml.maxvalue = 2 /\ RankTwo(Last(ml'.matches))
     /\ VersionPlace(ml.bestm.atom.version) # VersionPlace(Last(ml'.matches).version)
     /\ Distance(ml.bestm.atom.version, ml.mypkg) # 0
     /\ Distance(Last(ml'.matches).version, ml.mypkg) # 0)
    => IF (VersionPlace(ml.bestm.atom.version) < VersionPlace(ml.mypkg.version))
              # (VersionPlace(Last(ml'.matches).version) < VersionPlace(ml.mypkg.version))
       THEN ml'.bestm = ml.bestm
       ELSE ml'.bestm.atom =
                IF Distance(Last(ml'.matches).version, ml.mypkg)
                       < Distance(ml.bestm.atom.version, ml.mypkg)
                THEN Last(ml'.matches) ELSE ml.bestm.atom

TieBreakSorted == [][TieBreakStep]_vars

\* C25: when rank 2 is the greatest rank and the versions of all matching
\* atoms of rank 2 are on one side of the package's version, the returned
\* atom is one whose version is closest to the package's, whatever the order
\* of the list.
C25_ClosestOnOneSide ==
    (/\ ml.status = "returned" /\ ml.maxvalue = 2
     /\ \/ \A i \in 1..Len(ml.matches) :
               RankTwo(ml.matches[i]) =>
                   VersionPlace(ml.matches[i].version) <= VersionPlace(ml.mypkg.version)
        \/ \A i \in 1..Len(ml.matches) :
               RankTwo(ml.matches[i]) =>
                   VersionPlace(ml.matches[i].version) >= VersionPlace(ml.mypkg.version))
    => \A i \in 1..Len(ml.matches) :
           RankTwo(ml.matches[i]) =>
               Distance(ml.bestm.atom.version, ml.mypkg)
                   <= Distance(ml.matches[i].version, ml.mypkg)

\* ===================================================== PackageVirtualDbapi
\* The packages given to the database: a package is what its hash key says
\* (here its cpv and its type), and its slot comes with it, so two packages
\* that are equal have one slot_atom.  An installed package and an ebuild of
\* one cpv may differ in slot.
DbPackage(cp, version, type_name, slot) ==
    [cp |-> cp, cpv |-> cp \o <<"-">> \o version, type_name |-> type_name,
     slot_atom |-> cp \o <<":">> \o slot]

DbPackages ==
    {DbPackage(MlCp, <<"1">>, "ebuild", <<"0">>),
     DbPackage(MlCp, <<"1">>, "installed", <<"1">>),
     DbPackage(MlCp, <<"2">>, "ebuild", <<"0">>),
     DbPackage(MlCp, <<"2">>, "installed", <<"1">>),
     DbPackage(MlCp, <<"1", "0">>, "ebuild", <<"2">>),
     DbPackage(<<"c", "/", "q">>, <<"1">>, "ebuild", <<"0">>)}

\* _cp_map and _cpv_map are functions on the keys they hold; _match_cache is
\* the set of its keys.
EmptyMap == [k \in {} |-> <<>>]

\* dict[k] = v and del dict[k]
Put(dict, k, v) == [j \in DOMAIN dict \cup {k} |-> IF j = k THEN v ELSE dict[j]]
Del(dict, k) == [j \in DOMAIN dict \ {k} |-> dict[j]]

\* list.remove(pkg): the list without the first member equal to pkg
RECURSIVE ListRemove(_, _)
ListRemove(list, pkg) ==
    IF list = <<>> THEN <<>>
    ELSE IF list[1] = pkg THEN Tail1(list)
    ELSE <<list[1]>> \o ListRemove(Tail1(list), pkg)

\* cpv_remove(pkg) (lines 139-145) on the maps d; raised tells of the
\* KeyError, and of the ValueError of list.remove.
cpv_remove(d, pkg) ==
    IF ~(pkg.cpv \in DOMAIN d._cpv_map /\ d._cpv_map[pkg.cpv] = pkg)
    THEN [d EXCEPT !.raised = "KeyError"]
    ELSE IF ~(pkg.cp \in DOMAIN d._cp_map) THEN [d EXCEPT !.raised = "KeyError"]
    ELSE IF ~Listed(pkg, d._cp_map[pkg.cp]) THEN [d EXCEPT !.raised = "ValueError"]
    ELSE [_cp_map |-> Put(d._cp_map, pkg.cp, ListRemove(d._cp_map[pkg.cp], pkg)),
          _cpv_map |-> Del(d._cpv_map, pkg.cpv), _match_cache |-> {},
          raised |-> "no", returned |-> FALSE]

\* The end of cpv_inject (lines 135-137)
Appended(d, pkg) ==
    IF d.raised # "no" \/ d.returned THEN d
    ELSE [_cp_map |-> Put(d._cp_map, pkg.cp, Append(d._cp_map[pkg.cp], pkg)),
          _cpv_map |-> Put(d._cpv_map, pkg.cpv, pkg), _match_cache |-> {},
          raised |-> "no", returned |-> TRUE]

\* The first package of cp_list with the slot_atom of pkg, if any.
SameSlot(cp_list, pkg) == {i \in 1..Len(cp_list) : cp_list[i].slot_atom = pkg.slot_atom}
FirstOf(places) == CHOOSE i \in places : \A j \in places : i <= j

\* cpv_inject whose loop over cp_list removes nothing: C30 tells it from
\* SlotLoop.
SlotLoop_KeepsAll(d, pkg) == d

\* The loop over cp_list (lines 129-134)
SlotLoop(d, pkg) ==
    IF d.raised # "no" \/ d.returned \/ SameSlot(d._cp_map[pkg.cp], pkg) = {} THEN d
    ELSE IF d._cp_map[pkg.cp][FirstOf(SameSlot(d._cp_map[pkg.cp], pkg))] = pkg
    THEN [d EXCEPT !.returned = TRUE]
    ELSE cpv_remove(d, d._cp_map[pkg.cp][FirstOf(SameSlot(d._cp_map[pkg.cp], pkg))])

\* The package of the cpv (lines 124-128)
CpvCheck(d, pkg) ==
    IF pkg.cpv \notin DOMAIN d._cpv_map THEN d
    ELSE IF d._cpv_map[pkg.cpv] = pkg THEN [d EXCEPT !.returned = TRUE]
    ELSE cpv_remove(d, d._cpv_map[pkg.cpv])

\* The list of the cp (lines 120-123)
CpList(d, pkg) ==
    IF pkg.cp \in DOMAIN d._cp_map THEN d
    ELSE [d EXCEPT !._cp_map = Put(@, pkg.cp, <<>>)]

\* cpv_inject(pkg) (lines 119-137)
cpv_inject(d, pkg) == Appended(SlotLoop(CpvCheck(CpList(d, pkg), pkg), pkg), pkg)

\* The maps of the database as an operation finds them.
DbMaps ==
    [_cp_map |-> db._cp_map, _cpv_map |-> db._cpv_map, _match_cache |-> db._match_cache,
     raised |-> "no", returned |-> FALSE]

DbAfter(op, pkg, d) ==
    [_cp_map |-> d._cp_map, _cpv_map |-> d._cpv_map, _match_cache |-> d._match_cache,
     last |-> [op |-> op, pkg |-> pkg, raised |-> d.raised,
               _cp_map |-> db._cp_map, _cpv_map |-> db._cpv_map]]

\* __init__ (lines 24-29)
DbInit ==
    /\ db = [_cp_map |-> EmptyMap, _cpv_map |-> EmptyMap, _match_cache |-> {},
             last |-> [op |-> "init"]]
    /\ ur = Idle /\ ru = Idle /\ ud = Idle /\ at = Idle /\ cc = Idle /\ ml = Idle
    /\ heap = <<>> /\ cache = <<>> /\ held = {} /\ first = <<>>

DbInject ==
    /\ \E pkg \in DbPackages : db' = DbAfter("cpv_inject", pkg, cpv_inject(DbMaps, pkg))
    /\ UNCHANGED <<ur, ru, heap, cache, held, first, ud, at, ml, cc>>

DbRemove ==
    /\ \E pkg \in DbPackages : db' = DbAfter("cpv_remove", pkg, cpv_remove(DbMaps, pkg))
    /\ UNCHANGED <<ur, ru, heap, cache, held, first, ud, at, ml, cc>>

\* cp_list(mycp) (lines 97-110), which leaves its result in _match_cache
DbCpList ==
    /\ \E mycp \in {MlCp, <<"c", "/", "q">>} :
         db' = [db EXCEPT !._match_cache = @ \cup {mycp},
                          !.last = [op |-> "cp_list", pkg |-> mycp]]
    /\ UNCHANGED <<ur, ru, heap, cache, held, first, ud, at, ml, cc>>

DbNext == DbInject \/ DbRemove \/ DbCpList

SpecDb == DbInit /\ [][DbNext]_vars

\* The packages of _cpv_map and those of the lists of _cp_map.
Mapped == {db._cpv_map[k] : k \in DOMAIN db._cpv_map}
InLists == UNION {{db._cp_map[k][i] : i \in 1..Len(db._cp_map[k])} : k \in DOMAIN db._cp_map}

\* The packages stored when the last operation began.
MappedBefore == {db.last._cpv_map[k] : k \in DOMAIN db.last._cpv_map}

\* C30: the two indexes hold the same packages, each once, no two of them
\* with one cpv or one slot_atom; after cpv_inject(pkg) the package is
\* stored and every other package that had its cpv or its slot_atom is
\* gone; cpv_remove of a package that is not stored raises KeyError and
\* changes nothing.
C30_IndexesAgree ==
    /\ Mapped = InLists
    /\ \A k \in DOMAIN db._cpv_map : db._cpv_map[k].cpv = k
    /\ \A k \in DOMAIN db._cp_map :
         \A i, j \in 1..Len(db._cp_map[k]) :
             /\ db._cp_map[k][i].cp = k
             /\ i # j => /\ db._cp_map[k][i].cpv # db._cp_map[k][j].cpv
                         /\ db._cp_map[k][i].slot_atom # db._cp_map[k][j].slot_atom
    /\ db.last.op = "cpv_inject" =>
         /\ db.last.raised = "no"
         /\ db.last.pkg \in Mapped
         /\ \A e \in MappedBefore \ {db.last.pkg} :
                (e.cpv = db.last.pkg.cpv \/ e.slot_atom = db.last.pkg.slot_atom)
                    => e \notin Mapped
    /\ (db.last.op = "cpv_remove" /\ db.last.pkg \notin MappedBefore) =>
         /\ db.last.raised = "KeyError"
         /\ db._cpv_map = db.last._cpv_map /\ db._cp_map = db.last._cp_map

\* The ebuild c/p-1 in slot 0 is injected where the installed c/p-1 of slot
\* 1 and the ebuild c/p-2 of slot 0 were stored: it replaces both.
C30_Witness ==
    /\ db.last.op = "cpv_inject"
    /\ db.last.pkg = DbPackage(MlCp, <<"1">>, "ebuild", <<"0">>)
    /\ MappedBefore = {DbPackage(MlCp, <<"1">>, "installed", <<"1">>),
                       DbPackage(MlCp, <<"2">>, "ebuild", <<"0">>)}
    /\ Mapped = {db.last.pkg}

\* ============================================ The caches of compiled patterns
MaxLookups == 2

Threads == {1, 2}

\* The keys: slot_operator of the EAPI's attributes for _slot_dep_re_cache,
\* written as a text, and the extended cp for _extended_cp_re_cache.
SlotKeys == {<<"True">>, <<"False">>}
CpKeys == {<<"*", "/", "*">>, <<"c", "/", "*">>, <<"c", "+", "/", "*">>}

\* re.escape(extended_cp).replace(r"\*", "[^/]*") (lines 1463-1465)
RECURSIVE EscapedCp(_)
EscapedCp(extended_cp) ==
    IF extended_cp = <<>> THEN <<>>
    ELSE (IF extended_cp[1] = "*" THEN <<"[^/]*">>
          ELSE IF extended_cp[1] \in {"+", ".", "/", "-"} THEN <<"\\", extended_cp[1]>>
          ELSE <<extended_cp[1]>>) \o EscapedCp(Tail1(extended_cp))

\* The text of the pattern that a miss compiles (lines 92-97, 1463-1465)
PatternText(fn, cache_key) ==
    IF fn = "_get_slot_dep_re"
    THEN (IF cache_key = <<"True">> THEN <<"^", "_slot", "?(\\*|=|/", "_slot", "=?)?", "$">>
          ELSE <<"^", "_slot", "$">>)
    ELSE <<"^">> \o EscapedCp(cache_key) \o <<"$">>

\* re.compile whose patterns are equal only when they are one object: C26
\* tells it from re_compile.
re_compile_ByIdentity(pattern, id) == [pattern |-> <<pattern, id>>, id |-> id]

\* re.compile(pattern, flags): a pattern object; two of them are equal when
\* their texts and flags are, whatever objects they are.
re_compile(pattern, id) == [pattern |-> pattern, id |-> id]

NoPattern == [pattern |-> <<>>, id |-> 0]

\* Nothing is cached and no thread has called yet.
CcInit ==
    /\ cc = [_slot_dep_re_cache |-> EmptyMap, _extended_cp_re_cache |-> EmptyMap,
             next_id |-> 1,
             threads |-> [t \in Threads |->
                             [pc |-> "idle", fn |-> "none", cache_key |-> <<>>,
                              value |-> NoPattern, lookups |-> 0]]]
    /\ ur = Idle /\ ru = Idle /\ ud = Idle /\ at = Idle /\ ml = Idle /\ db = Idle
    /\ heap = <<>> /\ cache = <<>> /\ held = {} /\ first = <<>>

CacheOf(c, fn) ==
    IF fn = "_get_slot_dep_re" THEN c._slot_dep_re_cache ELSE c._extended_cp_re_cache

\* A thread calls one of the two functions, which reads the cache with
\* .get(cache_key) (lines 88-91, 1461-1462): a hit is returned.
CcLookup(t, fn, cache_key) ==
    /\ cc.threads[t].pc \in {"idle", "returned"}
    /\ cc.threads[t].lookups < MaxLookups
    /\ cc' = [cc EXCEPT !.threads[t] =
                 [pc |-> IF cache_key \in DOMAIN CacheOf(cc, fn) THEN "returned" ELSE "missed",
                  fn |-> fn, cache_key |-> cache_key,
                  value |-> IF cache_key \in DOMAIN CacheOf(cc, fn)
                            THEN CacheOf(cc, fn)[cache_key] ELSE NoPattern,
                  lookups |-> @.lookups + 1]]
    /\ UNCHANGED <<ur, ru, heap, cache, held, first, ud, at, ml, db>>

CcGet ==
    \E t \in Threads :
        \/ \E cache_key \in SlotKeys : CcLookup(t, "_get_slot_dep_re", cache_key)
        \/ \E cache_key \in CpKeys : CcLookup(t, "extended_cp_match", cache_key)

\* After a miss the thread compiles the pattern (lines 93-97, 1463-1465).
CcCompile ==
    /\ \E t \in Threads :
         /\ cc.threads[t].pc = "missed"
         /\ cc' = [cc EXCEPT !.next_id = @ + 1,
                             !.threads[t].pc = "compiled",
                             !.threads[t].value =
                                 re_compile(PatternText(cc.threads[t].fn,
                                                        cc.threads[t].cache_key),
                                            cc.next_id)]
    /\ UNCHANGED <<ur, ru, heap, cache, held, first, ud, at, ml, db>>

\* The thread stores what it compiled under the key and returns it (lines
\* 99-100, 1466-1467).
CcStore ==
    /\ \E t \in Threads :
         /\ cc.threads[t].pc = "compiled"
         /\ cc' = IF cc.threads[t].fn = "_get_slot_dep_re"
                  THEN [cc EXCEPT !.threads[t].pc = "returned",
                                  !._slot_dep_re_cache =
                                      Put(@, cc.threads[t].cache_key, cc.threads[t].value)]
                  ELSE [cc EXCEPT !.threads[t].pc = "returned",
                                  !._extended_cp_re_cache =
                                      Put(@, cc.threads[t].cache_key, cc.threads[t].value)]
    /\ UNCHANGED <<ur, ru, heap, cache, held, first, ud, at, ml, db>>

CcNext == CcGet \/ CcCompile \/ CcStore

SpecCaches == CcInit /\ [][CcNext]_vars

\* Two threads that have returned from a lookup of one key hold equal
\* patterns.
EqualValues ==
    \A t, u \in Threads :
        (/\ cc.threads[t].pc = "returned" /\ cc.threads[u].pc = "returned"
         /\ cc.threads[t].fn = cc.threads[u].fn
         /\ cc.threads[t].cache_key = cc.threads[u].cache_key)
        => cc.threads[t].value.pattern = cc.threads[u].value.pattern

\* An entry stays, and what replaces it is equal to it.
EntriesKept ==
    /\ \A k \in DOMAIN cc._slot_dep_re_cache :
         /\ k \in DOMAIN cc'._slot_dep_re_cache
         /\ cc'._slot_dep_re_cache[k].pattern = cc._slot_dep_re_cache[k].pattern
    /\ \A k \in DOMAIN cc._extended_cp_re_cache :
         /\ k \in DOMAIN cc'._extended_cp_re_cache
         /\ cc'._extended_cp_re_cache[k].pattern = cc._extended_cp_re_cache[k].pattern

\* C26: under every interleaving of two threads that look up one key of a
\* cache, both obtain equal values, and an entry of a cache is never
\* replaced by a different value.
C26_RacesAreIdempotent == []EqualValues /\ [][EntriesKept]_vars

\* Both threads missed the key True of _slot_dep_re_cache, compiled a pattern
\* each and stored it: the second store replaced the entry of the first.
C26_Witness ==
    /\ \A t \in Threads :
         /\ cc.threads[t].pc = "returned" /\ cc.threads[t].lookups = 1
         /\ cc.threads[t].fn = "_get_slot_dep_re" /\ cc.threads[t].cache_key = <<"True">>
    /\ cc.threads[1].value.id # cc.threads[2].value.id
    /\ cc._slot_dep_re_cache[<<"True">>].id = cc.threads[1].value.id

====
